---- MODULE Spec2Model ----
(***************************************************************************)
(* Model of the alara_resurgent card tools: the gallery generator's        *)
(* document parser (parseDesignBible / finalizeCard / isRuleLine) and the   *)
(* art generator's Card.getShardIdentity cascade.                          *)
(*                                                                         *)
(* A line of text is a sequence of one-character strings.  Two characters  *)
(* outside ASCII are written as tokens: "EMDASH" is the em-dash U+2014 and *)
(* "LDQUO" is the left double quotation mark U+201C.                        *)
(***************************************************************************)
EXTENDS Integers, Sequences, FiniteSets, TLC

(***************************************************************************)
(* Characters and JavaScript string primitives                             *)
(***************************************************************************)
UpperChars == <<"A", "B", "C", "D", "E", "F", "G", "H", "I", "J", "K", "L", "M",
                "N", "O", "P", "Q", "R", "S", "T", "U", "V", "W", "X", "Y", "Z">>

LowerChars == <<"a", "b", "c", "d", "e", "f", "g", "h", "i", "j", "k", "l", "m",
                "n", "o", "p", "q", "r", "s", "t", "u", "v", "w", "x", "y", "z">>

DigitChars == <<"0", "1", "2", "3", "4", "5", "6", "7", "8", "9">>

Range(f) == {f[i] : i \in DOMAIN f}

UpperSet == Range(UpperChars)

LowerSet == Range(LowerChars)

DigitSet == Range(DigitChars)

\* [A-Z], [a-z] and \d of a JavaScript regular expression
IsUpper(c) == c \in UpperSet

IsLower(c) == c \in LowerSet

IsDigit(c) == c \in DigitSet

\* \s of a JavaScript regular expression, and the characters trim() removes
IsSpace(c) == c \in {" ", "\t"}

ToLowerChar(c) ==
  IF IsUpper(c) THEN LowerChars[CHOOSE i \in DOMAIN UpperChars : UpperChars[i] = c]
  ELSE c

ToUpperChar(c) ==
  IF IsLower(c) THEN UpperChars[CHOOSE i \in DOMAIN LowerChars : LowerChars[i] = c]
  ELSE c

\* String.prototype.toLowerCase / toUpperCase
toLowerCase(s) == [i \in 1..Len(s) |-> ToLowerChar(s[i])]

toUpperCase(s) == [i \in 1..Len(s) |-> ToUpperChar(s[i])]

\* String.prototype.includes
includes(s, t) ==
  \E i \in 1..(Len(s) - Len(t) + 1) : \A j \in 1..Len(t) : s[i + j - 1] = t[j]

\* String.prototype.startsWith
startsWith(s, t) == Len(s) >= Len(t) /\ \A j \in 1..Len(t) : s[j] = t[j]

\* String.prototype.trim
trim(s) ==
  IF \A i \in 1..Len(s) : IsSpace(s[i]) THEN <<>>
  ELSE LET a == CHOOSE i \in 1..Len(s) :
                  ~IsSpace(s[i]) /\ \A j \in 1..(i - 1) : IsSpace(s[j])
           b == CHOOSE i \in 1..Len(s) :
                  ~IsSpace(s[i]) /\ \A j \in (i + 1)..Len(s) : IsSpace(s[j])
       IN SubSeq(s, a, b)

\* Array.prototype.join(" ") over an array of strings
RECURSIVE join(_)
join(arr) ==
  IF Len(arr) = 0 THEN <<>>
  ELSE IF Len(arr) = 1 THEN arr[1]
  ELSE arr[1] \o <<" ">> \o join(Tail(arr))

(***************************************************************************)
(* Classifier: isRuleLine                                                  *)
(***************************************************************************)
mechanics ==
  << <<"t", "a", "r", "g", "e", "t">>,
     <<"b", "a", "t", "t", "l", "e", "f", "i", "e", "l", "d">>,
     <<"g", "r", "a", "v", "e", "y", "a", "r", "d">>,
     <<"l", "i", "b", "r", "a", "r", "y">>,
     <<"e", "x", "i", "l", "e">>,
     <<"d", "a", "m", "a", "g", "e">>,
     <<"l", "i", "f", "e">>,
     <<"c", "o", "u", "n", "t", "e", "r">>,
     <<"t", "o", "k", "e", "n">>,
     <<"c", "r", "e", "a", "t", "e">>,
     <<"s", "a", "c", "r", "i", "f", "i", "c", "e">>,
     <<"d", "e", "s", "t", "r", "o", "y">>,
     <<"d", "r", "a", "w">>,
     <<"d", "i", "s", "c", "a", "r", "d">>,
     <<"t", "a", "p">>,
     <<"u", "n", "t", "a", "p">>,
     <<"e", "q", "u", "i", "p">>,
     <<"a", "t", "t", "a", "c", "h">>,
     <<"c", "a", "s", "t">>,
     <<"a", "c", "t", "i", "v", "a", "t", "e">>,
     <<"e", "n", "t", "e", "r">>,
     <<"l", "e", "a", "v", "e", "s">>,
     <<"d", "i", "e">>,
     <<"r", "e", "g", "e", "n", "e", "r", "a", "t", "e">>,
     <<"f", "i", "g", "h", "t">>,
     <<"s", "c", "r", "y">>,
     <<"m", "i", "l", "l">>,
     <<"l", "o", "o", "k">>,
     <<"r", "e", "v", "e", "a", "l">>,
     <<"s", "h", "u", "f", "f", "l", "e">>,
     <<"f", "l", "y", "i", "n", "g">>,
     <<"h", "a", "s", "t", "e">>,
     <<"t", "r", "a", "m", "p", "l", "e">>,
     <<"v", "i", "g", "i", "l", "a", "n", "c", "e">>,
     <<"f", "i", "r", "s", "t", " ", "s", "t", "r", "i", "k", "e">>,
     <<"d", "o", "u", "b", "l", "e", " ", "s", "t", "r", "i", "k", "e">>,
     <<"d", "e", "a", "t", "h", "t", "o", "u", "c", "h">>,
     <<"r", "e", "a", "c", "h">>,
     <<"l", "i", "f", "e", "l", "i", "n", "k">>,
     <<"h", "e", "x", "p", "r", "o", "o", "f">>,
     <<"w", "a", "r", "d">>,
     <<"p", "r", "o", "t", "e", "c", "t", "i", "o", "n">>,
     <<"f", "l", "a", "s", "h">>,
     <<"d", "e", "f", "e", "n", "d", "e", "r">>,
     <<"+", "1", "/", "+", "1">>,
     <<"-", "1", "/", "-", "1">>,
     <<"f", "a", "b", "r", "i", "c", "a", "t", "e">>,
     <<"c", "a", "s", "c", "a", "d", "e">>,
     <<"e", "x", "a", "l", "t", "e", "d">>,
     <<"a", "f", "f", "i", "n", "i", "t", "y">>,
     <<"r", "e", "p", "l", "i", "c", "a", "t", "e">>,
     <<"s", "t", "o", "r", "m">>,
     <<"c", "y", "c", "l", "i", "n", "g">>,
     <<"f", "e", "a", "r">>,
     <<"i", "n", "t", "i", "m", "i", "d", "a", "t", "e">>,
     <<"l", "a", "n", "d", "w", "a", "l", "k">>,
     <<"s", "h", "r", "o", "u", "d">> >>

\* line.match(/^[A-Z][a-z]+ EMDASH/)
MatchAbilityWord(line) ==
  /\ Len(line) >= 4
  /\ IsUpper(line[1])
  /\ \E k \in 3..(Len(line) - 1) :
       /\ \A j \in 2..(k - 1) : IsLower(line[j])
       /\ line[k] = " "
       /\ line[k + 1] = "EMDASH"

\* line.match(/^[A-Z][a-z]+\s\d+$/)
MatchKeywordN(line) ==
  /\ Len(line) >= 4
  /\ IsUpper(line[1])
  /\ \E k \in 3..(Len(line) - 1) :
       /\ \A j \in 2..(k - 1) : IsLower(line[j])
       /\ IsSpace(line[k])
       /\ \A j \in (k + 1)..Len(line) : IsDigit(line[j])

\* isRuleLine with the terms looked up in the line as written
isRuleLineAsWritten(line) ==
  IF includes(line, <<"{">>) \/ includes(line, <<"}">>) THEN TRUE
  ELSE IF MatchAbilityWord(line) THEN TRUE
  ELSE IF MatchKeywordN(line) THEN TRUE
  ELSE \E t \in DOMAIN mechanics : includes(line, mechanics[t])

isRuleLine(line) ==
  IF includes(line, <<"{">>) \/ includes(line, <<"}">>) THEN TRUE
  ELSE IF MatchAbilityWord(line) THEN TRUE
  ELSE IF MatchKeywordN(line) THEN TRUE
  ELSE LET lower == toLowerCase(line)
       IN \E t \in DOMAIN mechanics : includes(lower, mechanics[t])

(***************************************************************************)
(* Card record and the two patterns that recognise a card-start line       *)
(***************************************************************************)
\* null (no card open) and undefined (a capture group that did not take part)
Null == <<>>

Undefined == <<"undefined">>

\* class Card, constructor
NewCard ==
  [id |-> <<>>, name |-> <<>>, cost |-> <<>>, type |-> <<>>,
   text |-> <<>>, flavor |-> <<>>]

IsTagChar(c) == IsUpper(c) \/ IsDigit(c)

\* end of the leading "[" [A-Z0-9]+ "]" of s, or 0 when s does not start so
TagEnd(s) ==
  IF /\ Len(s) >= 3
     /\ s[1] = "["
     /\ \E k \in 3..Len(s) : s[k] = "]" /\ \A j \in 2..(k - 1) : IsTagChar(s[j])
  THEN CHOOSE k \in 3..Len(s) : s[k] = "]" /\ \A j \in 2..(k - 1) : IsTagChar(s[j])
  ELSE 0

\* (?:\s+(\{.*\})\s*)?$ tried right after position e: the group takes part
CostMatches(s, e) ==
  /\ e + 1 <= Len(s)
  /\ IsSpace(s[e + 1])
  /\ \E a \in (e + 2)..Len(s) : \E b \in (a + 1)..Len(s) :
       /\ \A j \in (e + 1)..(a - 1) : IsSpace(s[j])
       /\ s[a] = "{"
       /\ s[b] = "}"
       /\ \A j \in (b + 1)..Len(s) : IsSpace(s[j])

CostOf(s, e) ==
  LET a == CHOOSE a \in (e + 2)..Len(s) :
             s[a] = "{" /\ \A j \in (e + 1)..(a - 1) : IsSpace(s[j])
      b == CHOOSE b \in (a + 1)..Len(s) :
             s[b] = "}" /\ \A j \in (b + 1)..Len(s) : IsSpace(s[j])
  IN SubSeq(s, a, b)

\* ends e of the lazy (.+?) started at position n that let the rest match
NameEnds(s, n) == {e \in n..Len(s) : e = Len(s) \/ CostMatches(s, e)}

\* starts n of (.+?): \s+ is greedy, so the longest run of blanks comes first
NameStarts(s, k) ==
  {n \in (k + 2)..Len(s) : \A j \in (k + 1)..(n - 1) : IsSpace(s[j])}

Max(S) == CHOOSE x \in S : \A y \in S : y <= x

Min(S) == CHOOSE x \in S : \A y \in S : x <= y

\* idTagRegex with a greedy (.+) for the name
idTagRegexGreedy(s) ==
  LET k == TagEnd(s)
  IN IF k = 0 \/ NameStarts(s, k) = {} THEN Null
     ELSE LET n == Max(NameStarts(s, k))
              e == Max(NameEnds(s, n))
          IN << s,
                SubSeq(s, 2, k - 1),
                SubSeq(s, n, e),
                IF e = Len(s) THEN Undefined ELSE CostOf(s, e) >>

\* cleanLine.match(idTagRegex): Null, or <<whole match, id, name, cost>>
idTagRegex(s) ==
  LET k == TagEnd(s)
  IN IF k = 0 \/ NameStarts(s, k) = {} THEN Null
     ELSE LET n == Max(NameStarts(s, k))
              e == Min(NameEnds(s, n))
          IN << s,
                SubSeq(s, 2, k - 1),
                SubSeq(s, n, e),
                IF e = Len(s) THEN Undefined ELSE CostOf(s, e) >>

\* cleanLine.match(/^\[[A-Z]+\d+\]/) as a truth value
MatchBareTag(s) ==
  /\ Len(s) >= 4
  /\ s[1] = "["
  /\ \E k \in 4..Len(s) : \E d \in 3..(k - 1) :
       /\ s[k] = "]"
       /\ \A j \in 2..(d - 1) : IsUpper(s[j])
       /\ \A j \in d..(k - 1) : IsDigit(s[j])

\* the array built for a header that misses idTagRegex
\* UnknownIdLine with the empty string as name
UnknownIdLineNoName(cleanLine) ==
  << Null, <<"U", "N", "K", "N", "O", "W", "N">>, <<>>, <<>> >>

UnknownIdLine(cleanLine) ==
  << Null, <<"U", "N", "K", "N", "O", "W", "N">>, cleanLine, <<>> >>

(***************************************************************************)
(* finalizeCard                                                            *)
(***************************************************************************)
\* line.startsWith(LDQUO) || line.startsWith('"')
\* StartsWithQuote with the test of the straight quote alone
StartsWithStraightQuote(line) == startsWith(line, <<"\"">>)

StartsWithQuote(line) ==
  startsWith(line, <<"LDQUO">>) \/ startsWith(line, <<"\"">>)

\* idLineMatch[3] || ""
CostOrEmpty(c) == IF c = Undefined \/ c = <<>> THEN <<>> ELSE c

NonBlank(l) == Len(trim(l)) > 0

\* ScanStep where a quoted line that isRuleLine accepts latches the flag
ScanStepQuoteLatches(line, acc) ==
  IF StartsWithQuote(line)
  THEN [acc EXCEPT !.processingFlavor = IF isRuleLine(line) THEN FALSE ELSE @,
                   !.flavorStack = <<line>> \o @]
  ELSE LET flag == IF isRuleLine(line) THEN FALSE ELSE acc.processingFlavor
       IN IF flag
          THEN [acc EXCEPT !.processingFlavor = flag, !.flavorStack = <<line>> \o @]
          ELSE [acc EXCEPT !.processingFlavor = flag, !.rulesStack = <<line>> \o @]

\* ScanStep with push in place of unshift: the lines land in scan order
ScanStepAppend(line, acc) ==
  IF StartsWithQuote(line)
  THEN [acc EXCEPT !.flavorStack = Append(@, line)]
  ELSE LET flag == IF isRuleLine(line) THEN FALSE ELSE acc.processingFlavor
       IN IF flag
          THEN [acc EXCEPT !.processingFlavor = flag, !.flavorStack = Append(@, line)]
          ELSE [acc EXCEPT !.processingFlavor = flag, !.rulesStack = Append(@, line)]

\* ScanStep with the classifier asked before the quotation mark is looked at
ScanStepRuleFirst(line, acc) ==
  LET flag == IF isRuleLine(line) THEN FALSE ELSE acc.processingFlavor
  IN IF flag \/ (StartsWithQuote(line) /\ ~isRuleLine(line))
     THEN [acc EXCEPT !.processingFlavor = flag, !.flavorStack = <<line>> \o @]
     ELSE [acc EXCEPT !.processingFlavor = flag, !.rulesStack = <<line>> \o @]

\* ScanStep with the flag set anew by every line instead of latched
ScanStepNoLatch(line, acc) ==
  IF StartsWithQuote(line)
  THEN [acc EXCEPT !.flavorStack = <<line>> \o @]
  ELSE LET flag == ~isRuleLine(line)
       IN IF flag
          THEN [acc EXCEPT !.processingFlavor = flag, !.flavorStack = <<line>> \o @]
          ELSE [acc EXCEPT !.processingFlavor = flag, !.rulesStack = <<line>> \o @]

\* one turn of the bottom-up loop over remaining
\* ScanStep where a line that isRuleLine accepts is put on both stacks
ScanStepBoth(line, acc) ==
  IF StartsWithQuote(line)
  THEN [acc EXCEPT !.flavorStack = <<line>> \o @]
  ELSE IF isRuleLine(line)
       THEN [acc EXCEPT !.processingFlavor = FALSE,
                        !.rulesStack = <<line>> \o @,
                        !.flavorStack = <<line>> \o @]
       ELSE IF acc.processingFlavor
            THEN [acc EXCEPT !.flavorStack = <<line>> \o @]
            ELSE [acc EXCEPT !.rulesStack = <<line>> \o @]

ScanStep(line, acc) ==
  IF StartsWithQuote(line)
  THEN [acc EXCEPT !.flavorStack = <<line>> \o @]
  ELSE LET flag == IF isRuleLine(line) THEN FALSE ELSE acc.processingFlavor
       IN IF flag
          THEN [acc EXCEPT !.processingFlavor = flag, !.flavorStack = <<line>> \o @]
          ELSE [acc EXCEPT !.processingFlavor = flag, !.rulesStack = <<line>> \o @]

ScanInit == [processingFlavor |-> TRUE, rulesStack |-> <<>>, flavorStack |-> <<>>]

RECURSIVE ScanFrom(_, _, _)
ScanFrom(rem, j, acc) ==
  IF j < 1 THEN acc ELSE ScanFrom(rem, j - 1, ScanStep(rem[j], acc))

CardHeader(idLineMatch) ==
  [NewCard EXCEPT !.id = idLineMatch[2],
                  !.name = idLineMatch[3],
                  !.cost = CostOrEmpty(idLineMatch[4])]

\* finalizeCard without the test of cleanBody.length: cleanBody[0] of an
\* empty array is undefined
finalizeCardNoLengthTest(idLineMatch, bodyLines) ==
  LET c0 == CardHeader(idLineMatch)
      cleanBody == SelectSeq(bodyLines, NonBlank)
      rem == IF Len(cleanBody) > 0 THEN Tail(cleanBody) ELSE <<>>
      acc == ScanFrom(rem, Len(rem), ScanInit)
  IN [c0 EXCEPT !.type = IF Len(cleanBody) > 0 THEN cleanBody[1] ELSE Undefined,
                !.text = acc.rulesStack,
                !.flavor = acc.flavorStack]

finalizeCard(idLineMatch, bodyLines) ==
  LET c0 == CardHeader(idLineMatch)
      cleanBody == SelectSeq(bodyLines, NonBlank)
  IN IF Len(cleanBody) > 0
     THEN LET rem == Tail(cleanBody)
              acc == ScanFrom(rem, Len(rem), ScanInit)
          IN [c0 EXCEPT !.type = cleanBody[1],
                        !.text = acc.rulesStack,
                        !.flavor = acc.flavorStack]
     ELSE c0

(***************************************************************************)
(* Input lines                                                             *)
(***************************************************************************)
\* 1. FLAVOR & WORLD
LineFlavorHeader == <<"1", ".", " ", "F", "L", "A", "V", "O", "R", " ", "&", " ", "W", "O", "R", "L", "D">>

\* == 2. MECHANICAL IDENTITIES
LineMechanicsHeader == <<"=", "=", " ", "2", ".", " ", "M", "E", "C", "H", "A", "N", "I", "C", "A", "L", " ", "I", "D", "E", "N", "T", "I", "T", "I", "E", "S">>

\* 3. CARD FILE
LineCardsHeader == <<"3", ".", " ", "C", "A", "R", "D", " ", "F", "I", "L", "E">>

\* [M01] Test Card {1}{W}
LineTestCard == <<"[", "M", "0", "1", "]", " ", "T", "e", "s", "t", " ", "C", "a", "r", "d", " ", "{", "1", "}", "{", "W", "}">>

\* [U7] Jund Imp
LineNoCost == <<"[", "U", "7", "]", " ", "J", "u", "n", "d", " ", "I", "m", "p">>

\* \s [R2]Bad 
LineMalformed == <<"\\", "s", " ", "[", "R", "2", "]", "B", "a", "d", " ">>

\* Creature (em-dash) Test
LineType == <<"C", "r", "e", "a", "t", "u", "r", "e", " ", "EMDASH", " ", "T", "e", "s", "t">>

\* Flying
LineFlying == <<"F", "l", "y", "i", "n", "g">>

\* "A quote."
LineQuote == <<"\"", "A", " ", "q", "u", "o", "t", "e", ".", "\"">>

\*   
LineBlank == <<" ", " ">>

\* A gentle breeze stirs the dust.
LineBreeze == <<"A", " ", "g", "e", "n", "t", "l", "e", " ", "b", "r", "e", "e", "z", "e", " ", "s", "t", "i", "r", "s", " ", "t", "h", "e", " ", "d", "u", "s", "t", ".">>

\* (left double quote)Draw {T}
LineTypoQuote == <<"LDQUO", "D", "r", "a", "w", " ", "{", "T", "}">>

\* Dust.
LineDust == <<"D", "u", "s", "t", ".">>

(***************************************************************************)
(* Card.getColorIdentity and Card.getShardIdentity of the art generator    *)
(***************************************************************************)
LabelEsper == "The Shard of Esper (Alara)"

LabelGrixis == "The Shard of Grixis (Alara)"

LabelJund == "The Shard of Jund (Alara)"

LabelNaya == "The Shard of Naya (Alara)"

LabelBant == "The Shard of Bant (Alara)"

LabelConflux == "The Conflux of Alara (Five-Color Energy)"

LabelEsperOrBant == "The Shard of Esper (Alara) or Bant"

LabelEsperOrGrixis == "The Shard of Esper (Alara) or Grixis"

LabelJundOrGrixis == "The Shard of Jund (Alara) or Grixis"

LabelJundOrNaya == "The Shard of Jund (Alara) or Naya"

LabelBantOrNaya == "The Shard of Bant (Alara) or Naya"

LabelMaelstrom == "The Maelstrom of Alara (Chaotic Mana Storm)"

LabelPlane == "The Plane of Alara"

\* getColorIdentity without the toUpperCase() call
getColorIdentityCaseSensitive(c) ==
  LET fullString == c.cost \o <<" ">> \o join(c.text)
  IN (IF includes(fullString, <<"{", "W", "}">>) THEN {"White"} ELSE {})
       \cup (IF includes(fullString, <<"{", "U", "}">>) THEN {"Blue"} ELSE {})
       \cup (IF includes(fullString, <<"{", "B", "}">>) THEN {"Black"} ELSE {})
       \cup (IF includes(fullString, <<"{", "R", "}">>) THEN {"Red"} ELSE {})
       \cup (IF includes(fullString, <<"{", "G", "}">>) THEN {"Green"} ELSE {})

\* (this.cost + " " + this.text.join(" ")).toUpperCase(), then one test and
\* one colors.add per colour; the result as the set of the colours added
getColorIdentity(c) ==
  LET fullString == toUpperCase(c.cost \o <<" ">> \o join(c.text))
  IN (IF includes(fullString, <<"{", "W", "}">>) THEN {"White"} ELSE {})
       \cup (IF includes(fullString, <<"{", "U", "}">>) THEN {"Blue"} ELSE {})
       \cup (IF includes(fullString, <<"{", "B", "}">>) THEN {"Black"} ELSE {})
       \cup (IF includes(fullString, <<"{", "R", "}">>) THEN {"Red"} ELSE {})
       \cup (IF includes(fullString, <<"{", "G", "}">>) THEN {"Green"} ELSE {})

\* 1. EXPLICIT NAME MATCHING; "" when no keyword is in the name
ShardByName(nameLower) ==
  IF includes(nameLower, <<"e", "s", "p", "e", "r">>) THEN LabelEsper
  ELSE IF includes(nameLower, <<"g", "r", "i", "x", "i", "s">>) THEN LabelGrixis
  ELSE IF includes(nameLower, <<"j", "u", "n", "d">>) THEN LabelJund
  ELSE IF includes(nameLower, <<"n", "a", "y", "a">>) THEN LabelNaya
  ELSE IF includes(nameLower, <<"b", "a", "n", "t">>) THEN LabelBant
  ELSE ""

\* 2. MECHANICAL IDENTITY MATCHING
ShardByText(textLower) ==
  IF includes(textLower, <<"f", "a", "b", "r", "i", "c", "a", "t", "e">>) THEN LabelEsper
  ELSE IF includes(textLower, <<"c", "o", "v", "e", "n", "a", "n", "t">>) THEN LabelBant
  ELSE IF includes(textLower, <<"e", "x", "h", "u", "m", "e">>) THEN LabelGrixis
  ELSE IF includes(textLower, <<"c", "a", "r", "n", "a", "g", "e">>) THEN LabelJund
  ELSE IF includes(textLower, <<"t", "i", "t", "a", "n", "i", "c">>) THEN LabelNaya
  ELSE IF includes(textLower, <<"s", "p", "e", "c", "t", "r", "u", "m">>) THEN LabelConflux
  ELSE ""

\* 3. COLOR IDENTITY MATCHING, colorCount === 3
ShardByThree(c) ==
  LET hasW == "White" \in c
      hasU == "Blue" \in c
      hasB == "Black" \in c
      hasR == "Red" \in c
      hasG == "Green" \in c
  IN IF Cardinality(c) # 3 THEN ""
     ELSE IF hasW /\ hasU /\ hasB THEN LabelEsper
     ELSE IF hasU /\ hasB /\ hasR THEN LabelGrixis
     ELSE IF hasB /\ hasR /\ hasG THEN LabelJund
     ELSE IF hasR /\ hasG /\ hasW THEN LabelNaya
     ELSE IF hasG /\ hasW /\ hasU THEN LabelBant
     ELSE ""

\* ShardByTwo with the label of the next pair for each pair
ShardByTwoShifted(c) ==
  LET hasW == "White" \in c
      hasU == "Blue" \in c
      hasB == "Black" \in c
      hasR == "Red" \in c
      hasG == "Green" \in c
  IN IF Cardinality(c) # 2 THEN ""
     ELSE IF hasW /\ hasU THEN LabelEsperOrGrixis
     ELSE IF hasU /\ hasB THEN LabelJundOrGrixis
     ELSE IF hasB /\ hasR THEN LabelJundOrNaya
     ELSE IF hasR /\ hasG THEN LabelBantOrNaya
     ELSE IF hasG /\ hasW THEN LabelEsperOrBant
     ELSE ""

\* Guild Mappings, colorCount === 2
ShardByTwo(c) ==
  LET hasW == "White" \in c
      hasU == "Blue" \in c
      hasB == "Black" \in c
      hasR == "Red" \in c
      hasG == "Green" \in c
  IN IF Cardinality(c) # 2 THEN ""
     ELSE IF hasW /\ hasU THEN LabelEsperOrBant
     ELSE IF hasU /\ hasB THEN LabelEsperOrGrixis
     ELSE IF hasB /\ hasR THEN LabelJundOrGrixis
     ELSE IF hasR /\ hasG THEN LabelJundOrNaya
     ELSE IF hasG /\ hasW THEN LabelBantOrNaya
     ELSE ""

\* 4. TYPE & FLAVOR FALLBACKS
ShardByType(typeLower) ==
  IF includes(typeLower, <<"a", "r", "t", "i", "f", "a", "c", "t">>) THEN LabelEsper
  ELSE IF includes(typeLower, <<"z", "o", "m", "b", "i", "e">>) \/ includes(typeLower, <<"d", "e", "m", "o", "n">>)
  THEN LabelGrixis
  ELSE IF \/ includes(typeLower, <<"d", "r", "a", "g", "o", "n">>)
          \/ includes(typeLower, <<"v", "i", "a", "s", "h", "i", "n", "o">>)
          \/ includes(typeLower, <<"g", "o", "b", "l", "i", "n">>)
  THEN LabelJund
  ELSE IF includes(typeLower, <<"b", "e", "a", "s", "t">>) \/ includes(typeLower, <<"g", "a", "r", "g", "a", "n", "t", "u", "a", "n">>)
  THEN LabelNaya
  ELSE IF includes(typeLower, <<"a", "n", "g", "e", "l">>) \/ includes(typeLower, <<"s", "o", "l", "d", "i", "e", "r">>)
  THEN LabelBant
  ELSE ""

\* getShardIdentity with the rules text looked at before the name
getShardIdentityTextFirst(c) ==
  LET nameLower == toLowerCase(c.name)
      textLower == toLowerCase(join(c.text))
      typeLower == toLowerCase(c.type)
      colors == getColorIdentity(c)
      colorCount == Cardinality(colors)
  IN IF ShardByText(textLower) # "" THEN ShardByText(textLower)
     ELSE IF ShardByName(nameLower) # "" THEN ShardByName(nameLower)
     ELSE IF ShardByThree(colors) # "" THEN ShardByThree(colors)
     ELSE IF ShardByTwo(colors) # "" THEN ShardByTwo(colors)
     ELSE IF ShardByType(typeLower) # "" THEN ShardByType(typeLower)
     ELSE IF colorCount >= 4 THEN LabelMaelstrom
     ELSE LabelPlane

\* getShardIdentity with the many-colour label given from three colours on
getShardIdentityManyFromThree(c) ==
  LET nameLower == toLowerCase(c.name)
      textLower == toLowerCase(join(c.text))
      typeLower == toLowerCase(c.type)
      colors == getColorIdentity(c)
      colorCount == Cardinality(colors)
  IN IF ShardByName(nameLower) # "" THEN ShardByName(nameLower)
     ELSE IF ShardByText(textLower) # "" THEN ShardByText(textLower)
     ELSE IF ShardByThree(colors) # "" THEN ShardByThree(colors)
     ELSE IF ShardByTwo(colors) # "" THEN ShardByTwo(colors)
     ELSE IF ShardByType(typeLower) # "" THEN ShardByType(typeLower)
     ELSE IF colorCount >= 3 THEN LabelMaelstrom
     ELSE LabelPlane

getShardIdentity(c) ==
  LET nameLower == toLowerCase(c.name)
      textLower == toLowerCase(join(c.text))
      typeLower == toLowerCase(c.type)
      colors == getColorIdentity(c)
      colorCount == Cardinality(colors)
  IN IF ShardByName(nameLower) # "" THEN ShardByName(nameLower)
     ELSE IF ShardByText(textLower) # "" THEN ShardByText(textLower)
     ELSE IF ShardByThree(colors) # "" THEN ShardByThree(colors)
     ELSE IF ShardByTwo(colors) # "" THEN ShardByTwo(colors)
     ELSE IF ShardByType(typeLower) # "" THEN ShardByType(typeLower)
     ELSE IF colorCount >= 4 THEN LabelMaelstrom
     ELSE LabelPlane

\* the cards the cascade is applied to: every combination of these fields
IdentityNames ==
  { <<"E", "s", "p", "e", "r", " ", "S", "t", "o", "r", "m", "w", "a", "t", "c", "h", "e", "r">>,
    <<"J", "u", "n", "d", " ", "I", "m", "p">>,
    <<"T", "e", "s", "t", " ", "C", "a", "r", "d">>,
    <<"B", "a", "n", "t", "a", "m", " ", "o", "f", " ", "G", "R", "I", "X", "I", "S">>,
    <<"[", "R", "2", "]", "{", "G", "}", "x">> }

IdentityCosts ==
  { <<>>,
    <<"{", "2", "}", "{", "W", "}", "{", "U", "}">>,
    <<"{", "W", "}", "{", "U", "}", "{", "B", "}">>,
    <<"{", "W", "}", "{", "B", "}">>,
    <<"{", "U", "}", "{", "R", "}", "{", "W", "}">>,
    <<"{", "W", "}", "{", "U", "}", "{", "B", "}", "{", "R", "}">>,
    <<"{", "3", "}">>,
    <<"{", "r", "}", "{", "g", "}">>,
    <<"{", "U", "}", "{", "B", "}">>,
    <<"{", "B", "}", "{", "R", "}">>,
    <<"{", "G", "}", "{", "W", "}">> }

IdentityTexts ==
  { <<  >>,
    << <<"F", "a", "b", "r", "i", "c", "a", "t", "e", " ", "2">> >>,
    << <<"F", "l", "y", "i", "n", "g">>, <<"{", "G", "}", ":", " ", "C", "a", "r", "n", "a", "g", "e", " ", "EMDASH", " ", "d", "r", "a", "w", " ", "a", " ", "c", "a", "r", "d", ".">> >>,
    << <<"{", "B", "}", ",", " ", "{", "T", "}", ":", " ", "S", "p", "e", "c", "t", "r", "u", "m", ".">> >>,
    << <<"{", "w", "}", "{", "W", "}", ":", " ", "G", "a", "i", "n", ".">>,
       <<"P", "a", "y", " ", "{", "u", "}", ".">> >> }

IdentityTypes ==
  { <<"C", "r", "e", "a", "t", "u", "r", "e", " ", "EMDASH", " ", "T", "e", "s", "t">>,
    <<"A", "r", "t", "i", "f", "a", "c", "t", " ", "C", "r", "e", "a", "t", "u", "r", "e", " ", "EMDASH", " ", "G", "o", "l", "e", "m">>,
    <<"C", "r", "e", "a", "t", "u", "r", "e", " ", "EMDASH", " ", "D", "r", "a", "g", "o", "n">>,
    <<"C", "r", "e", "a", "t", "u", "r", "e", " ", "EMDASH", " ", "A", "n", "g", "e", "l", " ", "Z", "o", "m", "b", "i", "e">>,
    <<"{", "U", "}", " ", "L", "a", "n", "d">>,
    <<>> }

IdentityFlavors ==
  { << >>,
    << <<"\"", "{", "R", "}", " ", "b", "u", "r", "n", "s", ".", "\"">> >> }

\* the lines a document is made of
LinePool ==
  { LineFlavorHeader, LineMechanicsHeader, LineCardsHeader,
    LineTestCard, LineNoCost, LineMalformed,
    LineType, LineFlying, LineQuote, LineBlank, LineDust }

\* the lines a card body handed to finalizeCard is made of
BodyPool ==
  { LineType, LineFlying, LineQuote, LineTypoQuote, LineDust }

\* the document of the scenario: a card file with one card
Scenario == << LineCardsHeader, LineTestCard, LineType, LineFlying, LineQuote >>

\* a document has at most MaxLines lines
MaxLines == 5

\* a card body handed to finalizeCard has at most MaxBody lines
MaxBody == 4

(***************************************************************************)
(* State                                                                   *)
(***************************************************************************)
VARIABLES
  \* parseDesignBible
  lineNo,           \* the number of lines of the document read so far
  line,             \* the line the callback of lines.forEach was last called with
  document,         \* the lines of the document when it is known at the start, else <<>>
  pc,               \* "scan" while lines.forEach runs, "done" after the return
  parsingSection,
  currentIdLine,
  currentBuffer,
  cards,
  setInfo,
  starts,           \* history: the normalized lines taken as card-start lines
  finalized,        \* history: the arguments of each finalizeCard call
  \* one call of finalizeCard, turn by turn
  idLineMatch,
  bodyLines,
  fpc,              \* "call", "loop", "done"
  remaining,
  i,
  processingFlavor,
  rulesStack,
  flavorStack,
  card,
  \* one call of getShardIdentity
  subject,          \* the card the method is called on
  ipc,              \* "call", "done"
  colors,           \* the colours getColorIdentity returned to getShardIdentity
  shard,            \* the label returned
  \* one call of isRuleLine
  ruleLine,         \* the argument of the call
  rpc,              \* "call", "done"
  isRule,           \* the value returned
  \* parseDesignBible of the image generator
  genPc,            \* "scan" while lines.forEach runs, "done" after the return
  genLineNo,        \* the number of lines of the document read so far
  currentCard,
  allCards,         \* the cards pushed so far, and the array returned to main
  \* main of the image generator and main of the gallery, on one file system
  program,          \* "generator" or "gallery"
  mpc,              \* the position in main
  inputExists,      \* INPUT_FILE exists
  dirExists,        \* OUTPUT_DIR exists
  files,            \* the names of the files in OUTPUT_DIR
  htmlWritten,      \* OUTPUT_FILE was written by the gallery
  rarityClasses,    \* the rarity class of each card element of OUTPUT_FILE
  cardsToProcess,
  cardNo,           \* the loop variable i of main
  requests,         \* history: the run and the file name of each request issued
  saved,            \* history: the run and the file name of each image written
  response,         \* what the last request came back with
  run               \* the number of the run of the generator: 1 or 2

parserVars ==
  << document, lineNo, line, pc, parsingSection, currentIdLine, currentBuffer, cards, setInfo,
     starts, finalized >>

finalizeVars ==
  << idLineMatch, bodyLines, fpc, remaining, i, processingFlavor, rulesStack,
     flavorStack, card >>

identityVars == << subject, ipc, colors, shard >>

classifyVars == << ruleLine, rpc, isRule >>

genVars == << genPc, genLineNo, currentCard, allCards >>

artVars ==
  << program, mpc, inputExists, dirExists, files, htmlWritten, rarityClasses, cardsToProcess,
     cardNo, requests, saved, response, run >>

vars == << parserVars, finalizeVars, identityVars, classifyVars, genVars, artVars >>

(***************************************************************************)
(* parseDesignBible                                                        *)
(***************************************************************************)
\* line.replace(sourceTagRegex, ''), sourceTagRegex = /^\\s*/ : a backslash
\* followed by any number of letters s, at the start of the line
StripSourceTag(raw) ==
  IF Len(raw) >= 1 /\ raw[1] = "\\"
  THEN LET n == Max({k \in 1..Len(raw) : \A j \in 2..k : raw[j] = "s"})
       IN SubSeq(raw, n + 1, Len(raw))
  ELSE raw

CleanLine(raw) == trim(StripSourceTag(raw))

HeaderFlavor == <<"1", ".", " ", "F", "L", "A", "V", "O", "R", " ", "&", " ", "W", "O", "R", "L", "D">>

HeaderMechanics == <<"2", ".", " ", "M", "E", "C", "H", "A", "N", "I", "C", "A", "L", " ", "I", "D", "E", "N", "T", "I", "T", "I", "E", "S">>

HeaderCards == <<"3", ".", " ", "C", "A", "R", "D", " ", "F", "I", "L", "E">>

\* IsSectionHeader with equality in place of includes
IsSectionHeaderExact(cleanLine) ==
  cleanLine \in {HeaderFlavor, HeaderMechanics, HeaderCards}

IsSectionHeader(cleanLine) ==
  \/ includes(cleanLine, HeaderFlavor)
  \/ includes(cleanLine, HeaderMechanics)
  \/ includes(cleanLine, HeaderCards)

\* the three header tests, in the order of the code
SectionOf(cleanLine) ==
  IF includes(cleanLine, HeaderFlavor) THEN "FLAVOR"
  ELSE IF includes(cleanLine, HeaderMechanics) THEN "MECHANICS"
  ELSE "CARDS"

\* match || cleanLine.match(/^\[[A-Z]+\d+\]/)
IsCardStart(cleanLine) == idTagRegex(cleanLine) # Null \/ MatchBareTag(cleanLine)

\* if (match) currentIdLine = match; else currentIdLine = [null, "UNKNOWN", ...]
IdLineOf(cleanLine) ==
  LET match == idTagRegex(cleanLine)
  IN IF match # Null THEN match ELSE UnknownIdLine(cleanLine)

FinalizeIdle ==
  /\ idLineMatch = Null
  /\ bodyLines = <<>>
  /\ fpc = "idle"
  /\ remaining = <<>>
  /\ i = 0
  /\ processingFlavor = TRUE
  /\ rulesStack = <<>>
  /\ flavorStack = <<>>
  /\ card = NewCard

IdentityIdle ==
  /\ subject = NewCard
  /\ ipc = "idle"
  /\ colors = {}
  /\ shard = ""

GenIdle ==
  /\ genPc = "idle"
  /\ genLineNo = 0
  /\ currentCard = Null
  /\ allCards = <<>>

ArtIdle ==
  /\ program = "none"
  /\ mpc = "idle"
  /\ inputExists = TRUE
  /\ dirExists = TRUE
  /\ files = {}
  /\ htmlWritten = FALSE
  /\ rarityClasses = <<>>
  /\ cardsToProcess = <<>>
  /\ cardNo = 0
  /\ requests = <<>>
  /\ saved = <<>>
  /\ response = "none"
  /\ run = 1

ClassifyIdle ==
  /\ ruleLine = <<>>
  /\ rpc = "idle"
  /\ isRule = FALSE

ParserIdle ==
  /\ document = <<>>
  /\ lineNo = 0
  /\ line = <<>>
  /\ pc = "idle"
  /\ parsingSection = "INTRO"
  /\ currentIdLine = Null
  /\ currentBuffer = <<>>
  /\ cards = <<>>
  /\ setInfo = [flavor |-> <<>>, mechanics |-> <<>>]
  /\ starts = <<>>
  /\ finalized = <<>>

\* parseDesignBible is entered: the locals as declared, no line read yet
ParserStart ==
  /\ lineNo = 0
  /\ line = <<>>
  /\ pc = "scan"
  /\ parsingSection = "INTRO"
  /\ currentIdLine = Null
  /\ currentBuffer = <<>>
  /\ cards = <<>>
  /\ setInfo = [flavor |-> <<>>, mechanics |-> <<>>]
  /\ starts = <<>>
  /\ finalized = <<>>

\* the lines of the document are drawn from LinePool as they are read
Init ==
  /\ document = <<>>
  /\ ParserStart
  /\ FinalizeIdle
  /\ IdentityIdle
  /\ ClassifyIdle
  /\ GenIdle
  /\ ArtIdle

\* PushOpenCard with unshift in place of push
PushOpenCardFront ==
  IF currentIdLine # Null
  THEN /\ cards' = << finalizeCard(currentIdLine, currentBuffer) >> \o cards
       /\ finalized' = << << currentIdLine, currentBuffer >> >> \o finalized
  ELSE UNCHANGED << cards, finalized >>

\* cards.push(finalizeCard(currentIdLine, currentBuffer)), when a card is open
\* PushOpenCard that stores the card over the last one emitted
PushOpenCardOverLast ==
  IF currentIdLine # Null
  THEN /\ cards' = (IF cards = <<>>
                    THEN << finalizeCard(currentIdLine, currentBuffer) >>
                    ELSE [cards EXCEPT ![Len(cards)] =
                            finalizeCard(currentIdLine, currentBuffer)])
       /\ finalized' = Append(finalized, << currentIdLine, currentBuffer >>)
  ELSE UNCHANGED << cards, finalized >>

PushOpenCard ==
  IF currentIdLine # Null
  THEN /\ cards' = Append(cards, finalizeCard(currentIdLine, currentBuffer))
       /\ finalized' = Append(finalized, << currentIdLine, currentBuffer >>)
  ELSE UNCHANGED << cards, finalized >>

\* CardsBranch without currentBuffer = [] when a card is opened
CardsBranchKeepBuffer(cleanLine) ==
  IF IsCardStart(cleanLine)
  THEN /\ PushOpenCard
       /\ currentIdLine' = IdLineOf(cleanLine)
       /\ UNCHANGED currentBuffer
       /\ starts' = Append(starts, cleanLine)
       /\ UNCHANGED << parsingSection, setInfo >>
  ELSE IF currentIdLine # Null
  THEN /\ currentBuffer' = Append(currentBuffer, cleanLine)
       /\ UNCHANGED << parsingSection, currentIdLine, cards, setInfo, starts,
                       finalized >>
  ELSE UNCHANGED << parsingSection, currentIdLine, currentBuffer, cards, setInfo,
                    starts, finalized >>

\* CardsBranch where a line is buffered whether or not a card is open
CardsBranchBufferAlways(cleanLine) ==
  IF IsCardStart(cleanLine)
  THEN /\ PushOpenCard
       /\ currentIdLine' = IdLineOf(cleanLine)
       /\ currentBuffer' = <<>>
       /\ starts' = Append(starts, cleanLine)
       /\ UNCHANGED << parsingSection, setInfo >>
  ELSE /\ currentBuffer' = Append(currentBuffer, cleanLine)
       /\ UNCHANGED << parsingSection, currentIdLine, cards, setInfo, starts,
                       finalized >>

\* the branch of the callback taken in CARDS mode
CardsBranch(cleanLine) ==
  IF IsCardStart(cleanLine)
  THEN /\ PushOpenCard
       /\ currentIdLine' = IdLineOf(cleanLine)
       /\ currentBuffer' = <<>>
       /\ starts' = Append(starts, cleanLine)
       /\ UNCHANGED << parsingSection, setInfo >>
  ELSE IF currentIdLine # Null
  THEN /\ currentBuffer' = Append(currentBuffer, cleanLine)
       /\ UNCHANGED << parsingSection, currentIdLine, cards, setInfo, starts,
                       finalized >>
  ELSE UNCHANGED << parsingSection, currentIdLine, currentBuffer, cards, setInfo,
                    starts, finalized >>

\* Callback with the card-start test made in every section mode
CallbackCardsAnywhere(raw) ==
  /\ pc = "scan"
  /\ lineNo < MaxLines
  /\ lineNo' = lineNo + 1
  /\ line' = raw
  /\ UNCHANGED document
  /\ pc' = "scan"
  /\ LET cleanLine == CleanLine(raw)
     IN IF cleanLine = <<>>
        THEN UNCHANGED << parsingSection, currentIdLine, currentBuffer, cards,
                          setInfo, starts, finalized >>
        ELSE IF IsSectionHeader(cleanLine)
        THEN /\ parsingSection' = SectionOf(cleanLine)
             /\ UNCHANGED << currentIdLine, currentBuffer, cards, setInfo, starts,
                             finalized >>
        ELSE IF IsCardStart(cleanLine)
        THEN CardsBranch(cleanLine)
        ELSE IF parsingSection = "FLAVOR"
        THEN /\ setInfo' = [setInfo EXCEPT !.flavor = Append(@, cleanLine)]
             /\ UNCHANGED << parsingSection, currentIdLine, currentBuffer, cards,
                             starts, finalized >>
        ELSE IF parsingSection = "MECHANICS"
        THEN /\ setInfo' = [setInfo EXCEPT !.mechanics = Append(@, cleanLine)]
             /\ UNCHANGED << parsingSection, currentIdLine, currentBuffer, cards,
                             starts, finalized >>
        ELSE IF parsingSection = "CARDS"
        THEN CardsBranch(cleanLine)
        ELSE UNCHANGED << parsingSection, currentIdLine, currentBuffer, cards,
                          setInfo, starts, finalized >>
  /\ UNCHANGED << finalizeVars, identityVars, classifyVars, genVars, artVars >>

\* the callback of lines.forEach, called with the next line of the document
Callback(raw) ==
  /\ pc = "scan"
  /\ lineNo < MaxLines
  /\ lineNo' = lineNo + 1
  /\ line' = raw
  /\ UNCHANGED document
  /\ pc' = "scan"
  /\ LET cleanLine == CleanLine(raw)
     IN IF cleanLine = <<>>
        THEN UNCHANGED << parsingSection, currentIdLine, currentBuffer, cards,
                          setInfo, starts, finalized >>
        ELSE IF IsSectionHeader(cleanLine)
        THEN /\ parsingSection' = SectionOf(cleanLine)
             /\ UNCHANGED << currentIdLine, currentBuffer, cards, setInfo, starts,
                             finalized >>
        ELSE IF parsingSection = "FLAVOR"
        THEN /\ setInfo' = [setInfo EXCEPT !.flavor = Append(@, cleanLine)]
             /\ UNCHANGED << parsingSection, currentIdLine, currentBuffer, cards,
                             starts, finalized >>
        ELSE IF parsingSection = "MECHANICS"
        THEN /\ setInfo' = [setInfo EXCEPT !.mechanics = Append(@, cleanLine)]
             /\ UNCHANGED << parsingSection, currentIdLine, currentBuffer, cards,
                             starts, finalized >>
        ELSE IF parsingSection = "CARDS"
        THEN CardsBranch(cleanLine)
        ELSE UNCHANGED << parsingSection, currentIdLine, currentBuffer, cards,
                          setInfo, starts, finalized >>
  /\ UNCHANGED << finalizeVars, identityVars, classifyVars, genVars, artVars >>

\* EndOfDocument without the push of the card still open
EndOfDocumentNoPush ==
  /\ pc = "scan"
  /\ pc' = "done"
  /\ UNCHANGED << document, lineNo, line, parsingSection, currentIdLine,
                  currentBuffer, cards, setInfo, starts, finalized >>
  /\ UNCHANGED << finalizeVars, identityVars, classifyVars, genVars, artVars >>

\* after the loop: if (currentIdLine) cards.push(finalizeCard(...)); return
EndOfDocument ==
  /\ pc = "scan"
  /\ pc' = "done"
  /\ PushOpenCard
  /\ UNCHANGED << document, lineNo, line, parsingSection, currentIdLine,
                  currentBuffer, setInfo, starts >>
  /\ UNCHANGED << finalizeVars, identityVars, classifyVars, genVars, artVars >>

Next ==
  \/ \E raw \in LinePool : Callback(raw)
  \/ EndOfDocument

Spec == Init /\ [][Next]_vars

(***************************************************************************)
(* parseDesignBible on a card file that holds one card                     *)
(***************************************************************************)
\* what the header of a card-start line is made of
HeaderIds == { <<"M", "0", "1">>, <<"U", "7">>, <<"X">> }

HeaderGaps == { <<" ">>, <<" ", " ">>, <<"\t">> }

HeaderNames == { <<"T", "e", "s", "t", " ", "C", "a", "r", "d">>,
                 <<"J", "u", "n", "d", " ", "I", "m", "p">>,
                 <<"X">>,
                 <<"{", "1", "}">> }

HeaderCosts == { <<>>, <<"{", "1", "}", "{", "W", "}">>, <<"{", "T", "}">>, <<"{", "2", "}", " ", "{", "U", "}">> }

\* "[ID]" gap Name, then a gap and the cost when there is one
HeaderLine(id, gap1, name, gap2, cost) ==
  <<"[">> \o id \o <<"]">> \o gap1 \o name \o (IF cost = <<>> THEN <<>> ELSE gap2 \o cost)

\* the lines after the card-start line
CardBodies ==
  { <<>>, << LineType >>, << LineType, LineFlying, LineQuote >>,
    << LineBlank, LineType, LineFlying >>,
    << LineQuote, LineFlying >>,
    << LineType, LineTypoQuote, LineFlying >> }

\* card-start lines that miss idTagRegex
DegradedHeaders ==
  { LineMalformed,
    <<"[", "M", "0", "1", "]", "\t">>,
    <<"[", "U", "7", "]", "{", "G", "}">> }

InitCard ==
  /\ document \in
       { << LineCardsHeader, HeaderLine(id, gap1, name, gap2, cost) >> \o body :
           id \in HeaderIds, gap1 \in HeaderGaps, name \in HeaderNames,
           gap2 \in HeaderGaps, cost \in HeaderCosts, body \in CardBodies }
       \cup { << LineCardsHeader, h >> \o body :
                 h \in DegradedHeaders, body \in CardBodies }
  /\ ParserStart
  /\ FinalizeIdle
  /\ IdentityIdle
  /\ ClassifyIdle
  /\ GenIdle
  /\ ArtIdle

NextCard ==
  \/ lineNo < Len(document) /\ Callback(document[lineNo + 1])
  \/ lineNo = Len(document) /\ EndOfDocument

SpecCard == InitCard /\ [][NextCard]_vars

(***************************************************************************)
(* One call of finalizeCard, one turn of its loop per step                 *)
(***************************************************************************)
RECURSIVE SeqsUpTo(_, _)
SeqsUpTo(S, n) ==
  IF n = 0 THEN { <<>> }
  ELSE LET shorter == SeqsUpTo(S, n - 1)
       IN shorter \cup { Append(s, x) : s \in shorter, x \in S }

\* the header arrays finalizeCard is called with
IdLinePool ==
  { IdLineOf(CleanLine(LineTestCard)),
    IdLineOf(CleanLine(LineMalformed)) }

InitFinalize ==
  /\ ParserIdle
  /\ IdentityIdle
  /\ ClassifyIdle
  /\ GenIdle
  /\ ArtIdle
  /\ idLineMatch \in IdLinePool
  /\ bodyLines \in SeqsUpTo(BodyPool, MaxBody)
  /\ fpc = "call"
  /\ remaining = <<>>
  /\ i = 0
  /\ processingFlavor = TRUE
  /\ rulesStack = <<>>
  /\ flavorStack = <<>>
  /\ card = NewCard

\* from the entry of finalizeCard to the head of the for loop, or to the
\* return when the body is empty
FinalizeEnter ==
  /\ fpc = "call"
  /\ LET cleanBody == SelectSeq(bodyLines, NonBlank)
     IN IF Len(cleanBody) > 0
        THEN /\ card' = [CardHeader(idLineMatch) EXCEPT !.type = cleanBody[1]]
             /\ remaining' = Tail(cleanBody)
             /\ i' = Len(Tail(cleanBody))
             /\ fpc' = "loop"
        ELSE /\ card' = CardHeader(idLineMatch)
             /\ fpc' = "done"
             /\ UNCHANGED << remaining, i >>
  /\ UNCHANGED << idLineMatch, bodyLines, processingFlavor, rulesStack, flavorStack >>
  /\ UNCHANGED << parserVars, identityVars, classifyVars, genVars, artVars >>

\* one turn of for (let i = remaining.length - 1; i >= 0; i--)
LoopTurn ==
  /\ fpc = "loop"
  /\ i >= 1
  /\ LET acc == ScanStep(remaining[i],
                         [processingFlavor |-> processingFlavor,
                          rulesStack |-> rulesStack,
                          flavorStack |-> flavorStack])
     IN /\ processingFlavor' = acc.processingFlavor
        /\ rulesStack' = acc.rulesStack
        /\ flavorStack' = acc.flavorStack
  /\ i' = i - 1
  /\ UNCHANGED << idLineMatch, bodyLines, fpc, remaining, card >>
  /\ UNCHANGED << parserVars, identityVars, classifyVars, genVars, artVars >>

\* the loop is over: card.text = rulesStack; card.flavor = flavorStack; return
LoopExit ==
  /\ fpc = "loop"
  /\ i < 1
  /\ card' = [card EXCEPT !.text = rulesStack, !.flavor = flavorStack]
  /\ fpc' = "done"
  /\ UNCHANGED << idLineMatch, bodyLines, remaining, i, processingFlavor,
                  rulesStack, flavorStack >>
  /\ UNCHANGED << parserVars, identityVars, classifyVars, genVars, artVars >>

NextFinalize == FinalizeEnter \/ LoopTurn \/ LoopExit

SpecFinalize == InitFinalize /\ [][NextFinalize]_vars

\* the stepped call returns what the operator finalizeCard computes
StepsAgree == fpc = "done" => card = finalizeCard(idLineMatch, bodyLines)


(***************************************************************************)
(* One call of getShardIdentity                                            *)
(***************************************************************************)
InitIdentity ==
  /\ ParserIdle
  /\ FinalizeIdle
  /\ ClassifyIdle
  /\ GenIdle
  /\ ArtIdle
  /\ subject \in { [NewCard EXCEPT !.name = n, !.cost = c, !.text = t, !.type = ty,
                                !.flavor = f] :
                     n \in IdentityNames, c \in IdentityCosts,
                     t \in IdentityTexts, ty \in IdentityTypes,
                     f \in IdentityFlavors }
  /\ ipc = "call"
  /\ colors = {}
  /\ shard = ""

Derive ==
  /\ ipc = "call"
  /\ colors' = getColorIdentity(subject)
  /\ shard' = getShardIdentity(subject)
  /\ ipc' = "done"
  /\ UNCHANGED subject
  /\ UNCHANGED << parserVars, finalizeVars, classifyVars, genVars, artVars >>

NextIdentity == Derive

SpecIdentity == InitIdentity /\ [][NextIdentity]_vars

(***************************************************************************)
(* parseDesignBible on a whole document of any content                     *)
(***************************************************************************)
\* the lines a document is made of: the three headers in any order, a
\* structured and a degraded card-start line, a body line, a blank line
DocPool ==
  { LineFlavorHeader, LineMechanicsHeader, LineCardsHeader, LineTestCard,
    LineMalformed, LineFlying, LineBlank }

\* the greatest number of lines of a document
MaxDoc == 4

\* the documents: every sequence of at most MaxDoc lines of DocPool
Documents == SeqsUpTo(DocPool, MaxDoc)

\* parseDesignBible is called: the file is not read yet
InitDoc ==
  /\ document = <<>>
  /\ lineNo = 0
  /\ line = <<>>
  /\ pc = "read"
  /\ parsingSection = "INTRO"
  /\ currentIdLine = Null
  /\ currentBuffer = <<>>
  /\ cards = <<>>
  /\ setInfo = [flavor |-> <<>>, mechanics |-> <<>>]
  /\ starts = <<>>
  /\ finalized = <<>>
  /\ FinalizeIdle
  /\ IdentityIdle
  /\ ClassifyIdle
  /\ GenIdle
  /\ ArtIdle

\* fs.readFileSync and content.split: the lines of the document
ReadLines ==
  /\ pc = "read"
  /\ document' \in Documents
  /\ pc' = "scan"
  /\ UNCHANGED << lineNo, line, parsingSection, currentIdLine, currentBuffer,
                  cards, setInfo, starts, finalized >>
  /\ UNCHANGED << finalizeVars, identityVars, classifyVars, genVars, artVars >>

\* NextDoc with the return before all the lines are read
NextDocStopsEarly ==
  \/ ReadLines
  \/ lineNo < Len(document) /\ Callback(document[lineNo + 1])
  \/ EndOfDocument

\* lines.forEach calls the callback on each line in turn, then the rest of
\* the function runs
NextDoc ==
  \/ ReadLines
  \/ lineNo < Len(document) /\ Callback(document[lineNo + 1])
  \/ lineNo = Len(document) /\ EndOfDocument

SpecDoc == InitDoc /\ [][NextDoc]_vars

\* the statements run one after the other: the file is read, forEach calls
\* the callback while a line is left, and then the function returns
FileIsRead == pc = "read" /\ pc' = "scan"

CallbackRuns == pc = "scan" /\ lineNo < Len(document) /\ lineNo' = lineNo + 1

FunctionReturns == pc = "scan" /\ lineNo = Len(document) /\ pc' = "done"

SpecDocLive ==
  SpecDoc /\ WF_pc(FileIsRead) /\ WF_lineNo(CallbackRuns) /\ WF_pc(FunctionReturns)

(***************************************************************************)
(* The image generator: its Card, its parseDesignBible                     *)
(***************************************************************************)
endsWith(s, t) ==
  Len(s) >= Len(t) /\ \A j \in 1..Len(t) : s[Len(s) - Len(t) + j] = t[j]

\* name.replace(/[^a-z0-9]/gi, '_').toLowerCase()
SafeName(name) ==
  [n \in DOMAIN name |->
     IF IsUpper(name[n]) \/ IsLower(name[n]) \/ IsDigit(name[n])
     THEN ToLowerChar(name[n]) ELSE "_"]

DotPng == <<".", "p", "n", "g">>

\* Card.getFileName of the gallery
getFileName(c) ==
  IF c.id # <<>> THEN c.id \o <<"_">> \o SafeName(c.name) \o DotPng
  ELSE SafeName(c.name) \o DotPng

\* Card.getFileName of the image generator, and fileName of generateArtForCard
GenGetFileName(c) ==
  IF c.id # <<>> THEN c.id \o <<"_">> \o SafeName(c.name) \o DotPng
  ELSE SafeName(c.name) \o DotPng

\* the Card of the image generator: flavor is a string
GenNewCard ==
  [id |-> <<>>, name |-> <<>>, cost |-> <<>>, type |-> <<>>, text |-> <<>>, flavor |-> <<>>]

\* the three characters the image generator tests a flavor line for
GenQuoteMark == <<"ACIRC", "EURO", "OELIG">>

\* the flavor test of the image generator
GenIsFlavor(cleanLine) ==
  \/ startsWith(cleanLine, GenQuoteMark)
  \/ /\ endsWith(cleanLine, <<".">>)
     /\ ~includes(cleanLine, <<":">>)
     /\ ~includes(cleanLine, <<"{">>)

\* the card opened by a card-start line
GenOpenCard(cleanLine) ==
  LET idMatch == idTagRegex(cleanLine)
  IN IF idMatch # Null
     THEN [GenNewCard EXCEPT !.id = idMatch[2],
                             !.name = idMatch[3],
                             !.cost = CostOrEmpty(idMatch[4])]
     ELSE [GenNewCard EXCEPT !.name = cleanLine]

GenParserStart ==
  /\ genPc = "scan"
  /\ genLineNo = 0
  /\ currentCard = Null
  /\ allCards = <<>>

\* the callback of lines.forEach
GenCallback(raw) ==
  /\ genPc = "scan"
  /\ genLineNo' = genLineNo + 1
  /\ genPc' = "scan"
  /\ LET cleanLine == CleanLine(raw)
     IN IF cleanLine = <<>>
        THEN UNCHANGED << currentCard, allCards >>
        ELSE IF IsCardStart(cleanLine)
        THEN /\ allCards' = (IF currentCard # Null
                             THEN Append(allCards, currentCard) ELSE allCards)
             /\ currentCard' = GenOpenCard(cleanLine)
        ELSE IF currentCard = Null
        THEN UNCHANGED << currentCard, allCards >>
        ELSE /\ currentCard' =
                  (IF currentCard.type = <<>>
                   THEN [currentCard EXCEPT !.type = cleanLine]
                   ELSE IF GenIsFlavor(cleanLine)
                   THEN [currentCard EXCEPT !.flavor = @ \o <<" ">> \o cleanLine]
                   ELSE [currentCard EXCEPT !.text = Append(@, cleanLine)])
             /\ UNCHANGED allCards
  /\ UNCHANGED << parserVars, finalizeVars, identityVars, classifyVars, artVars >>

\* if (currentCard) cards.push(currentCard); return cards
GenEndOfDocument ==
  /\ genPc = "scan"
  /\ genPc' = "done"
  /\ allCards' = (IF currentCard # Null THEN Append(allCards, currentCard) ELSE allCards)
  /\ UNCHANGED << genLineNo, currentCard >>
  /\ UNCHANGED << parserVars, finalizeVars, identityVars, classifyVars, artVars >>

(***************************************************************************)
(* The gallery's parser, then the image generator's, on one document       *)
(***************************************************************************)
\* the lines after the card-start line
BothBodies ==
  CardBodies \cup { << LineType, LineDust, LineFlying >>, << LineType, LineDust >> }

BothHeaders == { LineTestCard, LineNoCost, LineMalformed }

InitBoth ==
  /\ document \in { << LineCardsHeader, h >> \o body :
                       h \in BothHeaders, body \in BothBodies }
  /\ ParserStart
  /\ GenParserStart
  /\ FinalizeIdle
  /\ IdentityIdle
  /\ ClassifyIdle
  /\ ArtIdle

NextBoth ==
  \/ lineNo < Len(document) /\ Callback(document[lineNo + 1])
  \/ lineNo = Len(document) /\ EndOfDocument
  \/ pc = "done" /\ genLineNo < Len(document) /\ GenCallback(document[genLineNo + 1])
  \/ pc = "done" /\ genLineNo = Len(document) /\ GenEndOfDocument

SpecBoth == InitBoth /\ [][NextBoth]_vars

\* both parsers on a whole document of any content
InitBothDoc ==
  /\ document \in Documents
  /\ ParserStart
  /\ GenParserStart
  /\ FinalizeIdle
  /\ IdentityIdle
  /\ ClassifyIdle
  /\ ArtIdle

SpecBothDoc == InitBothDoc /\ [][NextBoth]_vars

(***************************************************************************)
(* main of the image generator and main of the gallery                     *)
(***************************************************************************)
\* the greatest number of lines of the input document of a run
MaxCards == 2

\* a card-start line whose card has the file name of LineTestCard's card
LineTestCardAgain == <<"[", "M", "0", "1", "]", " ", "T", "e", "s", "t", "-", "C", "a", "r", "d">>

ArtLines == { LineTestCard, LineTestCardAgain, LineMalformed }

ArtDocuments == SeqsUpTo(ArtLines, MaxCards)

\* the files that may be in OUTPUT_DIR before the run
ArtFiles ==
  { <<"M", "0", "1", "_", "t", "e", "s", "t", "_", "c", "a", "r", "d", ".", "p", "n", "g">>,
    <<"_", "r", "2", "_", "b", "a", "d", ".", "p", "n", "g">> }

InitArt ==
  /\ program \in {"generator", "gallery"}
  /\ mpc = "start"
  /\ inputExists \in BOOLEAN
  /\ dirExists \in BOOLEAN
  /\ files \in SUBSET ArtFiles
  /\ ~dirExists => files = {}
  /\ htmlWritten = FALSE
  /\ rarityClasses = <<>>
  /\ cardsToProcess = <<>>
  /\ cardNo = 0
  /\ requests = <<>>
  /\ saved = <<>>
  /\ response = "none"
  /\ run = 1
  /\ document \in ArtDocuments
  /\ ~inputExists => document = <<>>
  /\ lineNo = 0
  /\ line = <<>>
  /\ pc = "idle"
  /\ parsingSection = "INTRO"
  /\ currentIdLine = Null
  /\ currentBuffer = <<>>
  /\ cards = <<>>
  /\ setInfo = [flavor |-> <<>>, mechanics |-> <<>>]
  /\ starts = <<>>
  /\ finalized = <<>>
  /\ GenIdle
  /\ FinalizeIdle
  /\ IdentityIdle
  /\ ClassifyIdle

\* Main with OUTPUT_DIR made before the test of INPUT_FILE
MainMkdirFirst ==
  /\ program = "generator"
  /\ mpc = "start"
  /\ dirExists' = TRUE
  /\ IF ~inputExists
     THEN /\ mpc' = "exit"
          /\ UNCHANGED genPc
     ELSE /\ genPc' = "scan"
          /\ mpc' = "parse"
  /\ UNCHANGED << genLineNo, currentCard, allCards >>
  /\ UNCHANGED << program, inputExists, files, htmlWritten, rarityClasses, cardsToProcess, cardNo,
                  requests, saved, response, run >>
  /\ UNCHANGED << parserVars, finalizeVars, identityVars, classifyVars >>

\* main of the image generator up to the call of parseDesignBible, which
\* reads the lines of INPUT_FILE (document)
Main ==
  /\ program = "generator"
  /\ mpc = "start"
  /\ IF ~inputExists
     THEN /\ mpc' = "exit"
          /\ UNCHANGED << dirExists, genPc >>
     ELSE /\ dirExists' = TRUE
          /\ genPc' = "scan"
          /\ mpc' = "parse"
  /\ UNCHANGED << genLineNo, currentCard, allCards >>
  /\ UNCHANGED << program, inputExists, files, htmlWritten, rarityClasses, cardsToProcess, cardNo,
                  requests, saved, response, run >>
  /\ UNCHANGED << parserVars, finalizeVars, identityVars, classifyVars >>

\* the card has no file in OUTPUT_DIR
NotGenerated(c) == GenGetFileName(c) \notin files

\* PRE-FILTER STEP, and the return when nothing is left
FilterCards ==
  /\ program = "generator"
  /\ mpc = "parse"
  /\ genPc = "done"
  /\ cardsToProcess' = SelectSeq(allCards, NotGenerated)
  /\ cardNo' = 0
  /\ mpc' = IF cardsToProcess' = <<>> THEN "return" ELSE "loop"
  /\ UNCHANGED << program, inputExists, dirExists, files, htmlWritten, rarityClasses, requests,
                  saved, response, run >>
  /\ UNCHANGED << parserVars, genVars, finalizeVars, identityVars, classifyVars >>

\* generateArtForCard without the test of fs.existsSync(outputPath)
generateArtForCardNoSkip ==
  /\ program = "generator"
  /\ mpc = "loop"
  /\ requests' = Append(requests, << run, GenGetFileName(cardsToProcess[cardNo + 1]) >>)
  /\ mpc' = "await"
  /\ UNCHANGED << program, inputExists, dirExists, files, htmlWritten, rarityClasses, cardsToProcess,
                  cardNo, saved, response, run >>
  /\ UNCHANGED << parserVars, genVars, finalizeVars, identityVars, classifyVars >>

\* generateArtForCard up to the await: [SKIP] when the file exists, else the
\* request is issued
generateArtForCard ==
  /\ program = "generator"
  /\ mpc = "loop"
  /\ LET fileName == GenGetFileName(cardsToProcess[cardNo + 1])
     IN IF fileName \in files
        THEN /\ mpc' = "sleep"
             /\ UNCHANGED requests
        ELSE /\ requests' = Append(requests, << run, fileName >>)
             /\ mpc' = "await"
  /\ UNCHANGED << program, inputExists, dirExists, files, htmlWritten, rarityClasses, cardsToProcess,
                  cardNo, saved, response, run >>
  /\ UNCHANGED << parserVars, genVars, finalizeVars, identityVars, classifyVars >>

\* Response with the card tried again after an error
ResponseRetry(outcome) ==
  /\ program = "generator"
  /\ mpc = "await"
  /\ response' = outcome
  /\ LET fileName == GenGetFileName(cardsToProcess[cardNo + 1])
     IN IF outcome = "image"
        THEN /\ files' = files \cup {fileName}
             /\ saved' = Append(saved, << run, fileName >>)
        ELSE UNCHANGED << files, saved >>
  /\ mpc' = IF outcome = "error" THEN "loop" ELSE "sleep"
  /\ UNCHANGED << program, inputExists, dirExists, htmlWritten, rarityClasses, cardsToProcess,
                  cardNo, requests, run >>
  /\ UNCHANGED << parserVars, genVars, finalizeVars, identityVars, classifyVars >>

\* the rest of generateArtForCard: the request comes back with image data,
\* with no image data, or with an error that the catch takes
Response(outcome) ==
  /\ program = "generator"
  /\ mpc = "await"
  /\ response' = outcome
  /\ LET fileName == GenGetFileName(cardsToProcess[cardNo + 1])
     IN IF outcome = "image"
        THEN /\ files' = files \cup {fileName}
             /\ saved' = Append(saved, << run, fileName >>)
        ELSE UNCHANGED << files, saved >>
  /\ mpc' = "sleep"
  /\ UNCHANGED << program, inputExists, dirExists, htmlWritten, rarityClasses, cardsToProcess,
                  cardNo, requests, run >>
  /\ UNCHANGED << parserVars, genVars, finalizeVars, identityVars, classifyVars >>

\* the safety sleep, i++ and the test of the for loop
Sleep ==
  /\ program = "generator"
  /\ mpc = "sleep"
  /\ cardNo' = cardNo + 1
  /\ mpc' = IF cardNo' < Len(cardsToProcess) THEN "loop" ELSE "return"
  /\ UNCHANGED << program, inputExists, dirExists, files, htmlWritten, rarityClasses, cardsToProcess,
                  requests, saved, response, run >>
  /\ UNCHANGED << parserVars, genVars, finalizeVars, identityVars, classifyVars >>

\* the image generator is started again on the same file system
SecondRun ==
  /\ program = "generator"
  /\ mpc = "return"
  /\ run = 1
  /\ run' = 2
  /\ mpc' = "start"
  /\ genPc' = "idle"
  /\ genLineNo' = 0
  /\ currentCard' = Null
  /\ allCards' = <<>>
  /\ cardsToProcess' = <<>>
  /\ cardNo' = 0
  /\ response' = "none"
  /\ UNCHANGED << program, inputExists, dirExists, files, htmlWritten, rarityClasses, requests, saved >>
  /\ UNCHANGED << parserVars, finalizeVars, identityVars, classifyVars >>

\* main of the gallery up to the call of parseDesignBible
GalleryMain ==
  /\ program = "gallery"
  /\ mpc = "start"
  /\ IF ~inputExists
     THEN /\ mpc' = "return"
          /\ UNCHANGED pc
     ELSE /\ pc' = "scan"
          /\ mpc' = "parse"
  /\ UNCHANGED << document, lineNo, line, parsingSection, currentIdLine, currentBuffer,
                  cards, setInfo, starts, finalized >>
  /\ UNCHANGED << program, inputExists, dirExists, files, htmlWritten, rarityClasses, cardsToProcess,
                  cardNo, requests, saved, response, run >>
  /\ UNCHANGED << genVars, finalizeVars, identityVars, classifyVars >>

\* Card.getRarityClass of the gallery
getRarityClass(c) ==
  IF c.id = <<>> THEN "common"
  ELSE LET code == ToUpperChar(c.id[1])
       IN IF code = "M" THEN "mythic"
          ELSE IF code = "R" THEN "rare"
          ELSE IF code = "U" THEN "uncommon"
          ELSE IF code = "L" THEN "land"
          ELSE "common"

\* fs.writeFileSync(OUTPUT_FILE, generateHTML(...)): generateHTML makes one
\* element for each card, of the class card.getRarityClass() gives
GalleryWrite ==
  /\ program = "gallery"
  /\ mpc = "parse"
  /\ pc = "done"
  /\ htmlWritten' = TRUE
  /\ rarityClasses' = [k \in 1..Len(cards) |-> getRarityClass(cards[k])]
  /\ mpc' = "return"
  /\ UNCHANGED << program, inputExists, dirExists, files, cardsToProcess, cardNo,
                  requests, saved, response, run >>
  /\ UNCHANGED << parserVars, genVars, finalizeVars, identityVars, classifyVars >>

NextArt ==
  \/ Main
  \/ mpc = "parse" /\ genLineNo < Len(document) /\ GenCallback(document[genLineNo + 1])
  \/ mpc = "parse" /\ genLineNo = Len(document) /\ GenEndOfDocument
  \/ FilterCards
  \/ generateArtForCard
  \/ \E outcome \in {"image", "empty", "error"} : Response(outcome)
  \/ Sleep
  \/ SecondRun
  \/ GalleryMain
  \/ mpc = "parse" /\ lineNo < Len(document) /\ Callback(document[lineNo + 1])
  \/ mpc = "parse" /\ lineNo = Len(document) /\ EndOfDocument
  \/ GalleryWrite

SpecArt == InitArt /\ [][NextArt]_vars

(***************************************************************************)
(* One run of the gallery on a card file                                   *)
(***************************************************************************)
\* card-start lines with an id of each rarity letter, of another letter and
\* of a digit
LineLand == <<"[", "L", "3", "]", " ", "I", "s", "l", "e">>

LineCommon == <<"[", "C", "1", "2", "]", " ", "I", "m", "p", " ", "{", "R", "}">>

LineDigit == <<"[", "7", "]", " ", "I", "m", "p">>

LineRare == <<"[", "R", "2", "]", " ", "B", "a", "d">>

GalleryHeaders ==
  DegradedHeaders \cup { LineTestCard, LineNoCost, LineLand, LineCommon, LineDigit, LineRare }

GalleryDocuments ==
  { << LineCardsHeader, h >> \o body : h \in GalleryHeaders, body \in CardBodies }

InitGallery ==
  /\ program = "gallery"
  /\ mpc = "start"
  /\ inputExists = TRUE
  /\ dirExists = TRUE
  /\ files = {}
  /\ htmlWritten = FALSE
  /\ rarityClasses = <<>>
  /\ cardsToProcess = <<>>
  /\ cardNo = 0
  /\ requests = <<>>
  /\ saved = <<>>
  /\ response = "none"
  /\ run = 1
  /\ document \in GalleryDocuments
  /\ lineNo = 0
  /\ line = <<>>
  /\ pc = "idle"
  /\ parsingSection = "INTRO"
  /\ currentIdLine = Null
  /\ currentBuffer = <<>>
  /\ cards = <<>>
  /\ setInfo = [flavor |-> <<>>, mechanics |-> <<>>]
  /\ starts = <<>>
  /\ finalized = <<>>
  /\ GenIdle
  /\ FinalizeIdle
  /\ IdentityIdle
  /\ ClassifyIdle

NextGallery ==
  \/ GalleryMain
  \/ mpc = "parse" /\ lineNo < Len(document) /\ Callback(document[lineNo + 1])
  \/ mpc = "parse" /\ lineNo = Len(document) /\ EndOfDocument
  \/ GalleryWrite

SpecGallery == InitGallery /\ [][NextGallery]_vars

(***************************************************************************)
(* One call of isRuleLine                                                  *)
(***************************************************************************)
\* the lines the classifier is called with: a first word, a separator and a
\* tail in every combination, and three whole lines
RuleWords ==
  { <<>>,
    <<"C", "r", "e", "w">>,
    <<"c", "r", "e", "w">>,
    <<"C">>,
    <<"O", "u", "t", "c", "a", "s", "t">>,
    <<"X", "y">> }

RuleSeps ==
  { <<>>,
    <<" ">>,
    <<" ", " ">>,
    <<"\t">>,
    <<" ", "EMDASH">>,
    <<"EMDASH">> }

RuleTails ==
  { <<>>,
    <<"2">>,
    <<"2", "3">>,
    <<"2", "a">>,
    <<" ", "x">>,
    <<"{">>,
    <<"D", "R", "A", "W">> }

LineDrawACard ==
  <<"{", "T", "}", ":", " ", "D", "r", "a", "w", " ", "a", " ", "c", "a", "r", "d", ".">>

RuleLines ==
  { w \o p \o t : w \in RuleWords, p \in RuleSeps, t \in RuleTails }
    \cup { LineFlying, LineDrawACard, LineBreeze }

InitClassify ==
  /\ ParserIdle
  /\ FinalizeIdle
  /\ IdentityIdle
  /\ GenIdle
  /\ ArtIdle
  /\ ruleLine \in RuleLines
  /\ rpc = "call"
  /\ isRule = FALSE

Classify ==
  /\ rpc = "call"
  /\ isRule' = isRuleLine(ruleLine)
  /\ rpc' = "done"
  /\ UNCHANGED ruleLine
  /\ UNCHANGED << parserVars, finalizeVars, identityVars, genVars, artVars >>

NextClassify == Classify

SpecClassify == InitClassify /\ [][NextClassify]_vars

(***************************************************************************)
(* Properties of finalizeCard, checked under SpecFinalize                  *)
(***************************************************************************)
\* the elements of s at the positions of P, in the order of s
RECURSIVE Pick(_, _)
Pick(s, P) ==
  IF P = {} THEN <<>>
  ELSE LET m == CHOOSE x \in P : \A y \in P : x <= y
       IN <<s[m]>> \o Pick(s, P \ {m})

NotQuoted(l) == ~StartsWithQuote(l)

Returned == fpc = "done" /\ Len(bodyLines) > 0

\* C1: for every finalized card, the type line is the first body line, and
\* the body lines after it split by position into rulesLines and flavorLines:
\* some set of positions gives rulesLines, in order, and the other positions
\* give flavorLines, in order, so that no position is in both or in neither.
C1_PartitionByPosition ==
  Returned =>
    LET rest == Tail(bodyLines)
        all == 1..Len(rest)
    IN /\ card.type = bodyLines[1]
       /\ \E P \in SUBSET all :
            /\ Pick(rest, P) = card.text
            /\ Pick(rest, all \ P) = card.flavor

C1_Witness ==
  /\ Returned
  /\ Len(card.text) >= 1
  /\ Len(card.flavor) >= 2
  /\ card.flavor[1] # card.flavor[2]

\* C2: every body line after the type line that begins with a left double
\* quotation mark or a straight double quote is in flavorLines, and none is in
\* rulesLines, wherever it stands and whatever it contains.
C2_QuotedIsFlavor ==
  Returned =>
    /\ SelectSeq(card.flavor, StartsWithQuote) = SelectSeq(Tail(bodyLines), StartsWithQuote)
    /\ SelectSeq(card.text, StartsWithQuote) = <<>>

\* a quoted line holding "{" and a vocabulary term, above a rules line
C2_Witness ==
  /\ Returned
  /\ \E a, b \in 2..Len(bodyLines) :
       /\ a < b
       /\ bodyLines[a] = LineTypoQuote
       /\ bodyLines[b] = LineFlying
  /\ \E k \in 1..Len(card.flavor) : card.flavor[k] = LineTypoQuote
  /\ \E k \in 1..Len(card.flavor) : card.flavor[k] = LineQuote

\* the last position of s that holds a rules line, 0 when there is none
LastRule(s) ==
  IF \E j \in 1..Len(s) : isRuleLine(s[j])
  THEN CHOOSE j \in 1..Len(s) :
         isRuleLine(s[j]) /\ \A k \in (j + 1)..Len(s) : ~isRuleLine(s[k])
  ELSE 0

C3_Boundary ==
  Returned =>
    LET plain == SelectSeq(Tail(bodyLines), NotQuoted)
    IN /\ card.text = SubSeq(plain, 1, LastRule(plain))
       /\ SelectSeq(card.flavor, NotQuoted) = SubSeq(plain, LastRule(plain) + 1, Len(plain))

C3_FlagStep == fpc = "loop" /\ ~processingFlavor => ~processingFlavor'

\* C3: the boundary is monotonic in the bottom-up scan: the non-quoted lines
\* down to the lowest one that isRuleLine accepts are the rulesLines, the
\* non-quoted lines below it are flavor lines, and once the flag is false no
\* later turn of the scan sets it back to true.
C3_Monotonic == [] C3_Boundary /\ [][C3_FlagStep]_vars

\* a plain line above a rules line went to the rules, a plain line below it
\* to the flavor
C3_Witness ==
  /\ Returned
  /\ \E a, b, c \in 2..Len(bodyLines) :
       /\ a < b /\ b < c
       /\ bodyLines[a] = LineDust
       /\ bodyLines[b] = LineFlying
       /\ bodyLines[c] = LineDust
  /\ card.text = << LineDust, LineFlying >>
  /\ card.flavor = << LineDust >>

(***************************************************************************)
(* Properties of parseDesignBible, checked under Spec                      *)
(***************************************************************************)
Open == IF pc = "scan" /\ currentIdLine # Null THEN 1 ELSE 0

\* C4: the number of cards emitted equals the number of lines taken as
\* card-start lines: during the scan every card-start line but the one of the
\* card still open has its card in the output, each pushed by one finalizeCard
\* call, and after the scan the two numbers are equal.
C4_OneCardPerStart ==
  /\ Len(cards) + Open = Len(starts)
  /\ Len(finalized) = Len(cards)
  /\ pc = "done" => Len(cards) = Len(starts)

C4_Witness == pc = "done" /\ Len(cards) = 2 /\ Len(starts) = 2

\* the header fields of the k-th card are those of the k-th card-start line
HeaderInOrder(k) ==
  LET h == CardHeader(IdLineOf(starts[k]))
  IN cards[k].id = h.id /\ cards[k].name = h.name /\ cards[k].cost = h.cost

C5_Order ==
  /\ Len(starts) - Len(cards) \in {0, 1}
  /\ \A k \in 1..Len(cards) : HeaderInOrder(k)
  /\ pc = "done" => Len(cards) = Len(starts)

C5_Emit ==
  /\ Len(cards') # Len(cards) =>
       /\ cards' = Append(cards, cards'[Len(cards')])
       /\ currentIdLine # Null
       /\ Len(starts') = Len(starts) + 1 \/ (pc = "scan" /\ pc' = "done")
  /\ currentIdLine # Null /\ Len(starts') = Len(starts) + 1 =>
       Len(cards') = Len(cards) + 1
  /\ currentIdLine # Null /\ pc = "scan" /\ pc' = "done" =>
       Len(cards') = Len(cards) + 1

\* C5: cards are emitted in the order of their card-start lines and at most
\* one card is open: a card is appended to the output exactly when a card is
\* open and the next card-start line is read or the document ends, and after
\* the scan every card opened is in the output.
C5_EmittedInOrder == [] C5_Order /\ [][C5_Emit]_vars

C5_Witness ==
  /\ pc = "done"
  /\ Len(cards) = 2
  /\ starts = << CleanLine(LineTestCard), CleanLine(LineNoCost) >>
  /\ cards[1].name # cards[2].name

\* the normalized line read by the step, when the step reads a line
ReadsLine == lineNo' = lineNo + 1

C6_Appends(mustBeInCards) ==
  LET cleanLine == CleanLine(line')
  IN /\ ReadsLine
     /\ currentIdLine # Null
     /\ cleanLine # <<>>
     /\ ~IsCardStart(cleanLine)
     /\ mustBeInCards => (parsingSection = "CARDS" /\ ~IsSectionHeader(cleanLine))
     => /\ currentBuffer' = Append(currentBuffer, cleanLine)
        /\ UNCHANGED << currentIdLine, cards >>

C6_BufferFrame ==
  /\ currentBuffer' # currentBuffer =>
       \/ ReadsLine /\ currentBuffer' = Append(currentBuffer, CleanLine(line'))
       \/ ReadsLine /\ currentBuffer' = <<>> /\ Len(starts') = Len(starts) + 1
  /\ Len(starts') = Len(starts) + 1 => currentBuffer' = <<>>
  /\ Len(cards') = Len(cards) + 1 =>
       /\ finalized'[Len(cards')] = << currentIdLine, currentBuffer >>
       /\ cards'[Len(cards')].type =
            (IF currentBuffer = <<>> THEN <<>> ELSE currentBuffer[1])

SectionRank(s) ==
  CASE s = "INTRO" -> 0
    [] s = "FLAVOR" -> 1
    [] s = "MECHANICS" -> 2
    [] s = "CARDS" -> 3

C7_Step ==
  /\ SectionRank(parsingSection') >= SectionRank(parsingSection)
  /\ parsingSection = "CARDS" => setInfo' = setInfo

\* C7: the section mode only moves forward (INTRO, FLAVOR, MECHANICS, CARDS):
\* once it is CARDS it stays CARDS, and no later line goes to a bucket.
C7_ModeOnlyForward == [][C7_Step]_vars

ScenarioCard ==
  [ id |-> <<"M", "0", "1">>,
    name |-> <<"T", "e", "s", "t", " ", "C", "a", "r", "d">>,
    cost |-> <<"{", "1", "}", "{", "W", "}">>,
    type |-> <<"C", "r", "e", "a", "t", "u", "r", "e", " ", "EMDASH", " ", "T", "e", "s", "t">>,
    text |-> << <<"F", "l", "y", "i", "n", "g">> >>,
    flavor |-> << <<"\"", "A", " ", "q", "u", "o", "t", "e", ".", "\"">> >> ]

\* C8: a card-start line "[ID] Name", with or without a trailing cost in
\* braces after it, gives a record with that id, that name and that cost (the
\* empty cost when there is none), and the document of the scenario gives
\* exactly one record: M01, Test Card, {1}{W}, type line "Creature (em-dash)
\* Test", rulesLines [Flying], flavorLines ["A quote."].
C8_StructuredHeader ==
  pc = "done" =>
    /\ Len(cards) = 1
    /\ \A id \in HeaderIds, gap1 \in HeaderGaps, name \in HeaderNames,
          gap2 \in HeaderGaps, cost \in HeaderCosts :
         document[2] = HeaderLine(id, gap1, name, gap2, cost) =>
           cards[1].id = id /\ cards[1].name = name /\ cards[1].cost = cost
    /\ document = Scenario => cards = << ScenarioCard >>

C8_Witness == pc = "done" /\ document = Scenario /\ cards[1].text = << LineFlying >>

\* C9: a card-start line that begins with a bracketed tag and misses the
\* structured pattern opens a card with the empty string as id, the whole
\* normalized line as name and the empty cost, and the lines after it are its
\* body.
C9_MalformedHeader ==
  \A k \in 1..Len(cards) :
    idTagRegex(starts[k]) = Null =>
      /\ cards[k].id = <<>>
      /\ cards[k].name = starts[k]
      /\ cards[k].cost = <<>>
      /\ finalized[k][2] # <<>> => cards[k].type = finalized[k][2][1]

(***************************************************************************)
(* Properties of getShardIdentity, checked under SpecIdentity              *)
(***************************************************************************)
LabelSet ==
  { LabelEsper, LabelGrixis, LabelJund, LabelNaya, LabelBant, LabelConflux,
    LabelEsperOrBant, LabelEsperOrGrixis, LabelJundOrGrixis, LabelJundOrNaya,
    LabelBantOrNaya, LabelMaelstrom, LabelPlane }

\* the keywords of rule 1 (name), rule 2 (rules text) and rule 5 (type line)
NameKeywords ==
  { << <<"e", "s", "p", "e", "r">>, LabelEsper >>,
    << <<"g", "r", "i", "x", "i", "s">>, LabelGrixis >>,
    << <<"j", "u", "n", "d">>, LabelJund >>,
    << <<"n", "a", "y", "a">>, LabelNaya >>,
    << <<"b", "a", "n", "t">>, LabelBant >> }

TextMarkers ==
  { << <<"f", "a", "b", "r", "i", "c", "a", "t", "e">>, LabelEsper >>,
    << <<"c", "o", "v", "e", "n", "a", "n", "t">>, LabelBant >>,
    << <<"e", "x", "h", "u", "m", "e">>, LabelGrixis >>,
    << <<"c", "a", "r", "n", "a", "g", "e">>, LabelJund >>,
    << <<"t", "i", "t", "a", "n", "i", "c">>, LabelNaya >>,
    << <<"s", "p", "e", "c", "t", "r", "u", "m">>, LabelConflux >> }

TypeKeywords ==
  { << <<"a", "r", "t", "i", "f", "a", "c", "t">>, LabelEsper >>,
    << <<"z", "o", "m", "b", "i", "e">>, LabelGrixis >>,
    << <<"d", "e", "m", "o", "n">>, LabelGrixis >>,
    << <<"d", "r", "a", "g", "o", "n">>, LabelJund >>,
    << <<"v", "i", "a", "s", "h", "i", "n", "o">>, LabelJund >>,
    << <<"g", "o", "b", "l", "i", "n">>, LabelJund >>,
    << <<"b", "e", "a", "s", "t">>, LabelNaya >>,
    << <<"g", "a", "r", "g", "a", "n", "t", "u", "a", "n">>, LabelNaya >>,
    << <<"a", "n", "g", "e", "l">>, LabelBant >>,
    << <<"s", "o", "l", "d", "i", "e", "r">>, LabelBant >> }

\* the colour combinations of rule 3 and of rule 4
ThreeColours ==
  { << {"White", "Blue", "Black"}, LabelEsper >>,
    << {"Blue", "Black", "Red"}, LabelGrixis >>,
    << {"Black", "Red", "Green"}, LabelJund >>,
    << {"Red", "Green", "White"}, LabelNaya >>,
    << {"Green", "White", "Blue"}, LabelBant >> }

TwoColours ==
  { << {"White", "Blue"}, LabelEsperOrBant >>,
    << {"Blue", "Black"}, LabelEsperOrGrixis >>,
    << {"Black", "Red"}, LabelJundOrGrixis >>,
    << {"Red", "Green"}, LabelJundOrNaya >>,
    << {"Green", "White"}, LabelBantOrNaya >> }

\* the labels of the keywords of table that occur in text, whatever the case
LabelsIn(table, text) ==
  { p[2] : p \in { q \in table : includes(toLowerCase(text), q[1]) } }

\* the labels rule k allows for card c; the empty set when rule k does not hold
RuleLabels(k, c) ==
  LET colours == getColorIdentity(c)
  IN CASE k = 1 -> LabelsIn(NameKeywords, c.name)
       [] k = 2 -> LabelsIn(TextMarkers, join(c.text))
       [] k = 3 -> { p[2] : p \in { q \in ThreeColours : q[1] = colours } }
       [] k = 4 -> { p[2] : p \in { q \in TwoColours : q[1] = colours } }
       [] k = 5 -> LabelsIn(TypeKeywords, c.type)
       [] k = 6 -> IF Cardinality(colours) >= 4 THEN { LabelMaelstrom } ELSE {}
       [] k = 7 -> { LabelPlane }

FirstRule(c) == CHOOSE k \in 1..7 :
                  RuleLabels(k, c) # {} /\ \A j \in 1..(k - 1) : RuleLabels(j, c) = {}

\* C10: getShardIdentity returns one label of the fixed label set, and the
\* label is one that the lowest-numbered rule that holds gives: name keyword,
\* rules-text marker, three colours, two colours, type keyword, four or more
\* colours, default.
C10_PriorityCascade ==
  ipc = "done" =>
    /\ shard \in LabelSet
    /\ shard \in RuleLabels(FirstRule(subject), subject)

\* a card named Esper Stormwatcher whose rules text, colours and type line
\* all point to other groups gets the label of its name
C10_Witness ==
  /\ ipc = "done"
  /\ RuleLabels(1, subject) = { LabelEsper }
  /\ RuleLabels(2, subject) = { LabelJund }
  /\ RuleLabels(4, subject) = { LabelJundOrNaya }
  /\ RuleLabels(5, subject) = { LabelJund }
  /\ shard = LabelEsper

(***************************************************************************)
(* C11: the colour identity                                                *)
(***************************************************************************)
\* the five colours with the letter of their token, upper and lower case
ColourLetters ==
  { <<"White", "W", "w">>, <<"Blue", "U", "u">>, <<"Black", "B", "b">>,
    <<"Red", "R", "r">>, <<"Green", "G", "g">> }

\* the bracketed token of the letter occurs in the text s
TokenIn(letter, s) == includes(s, <<"{", letter, "}">>)

\* the colours whose token occurs, in either case, in the cost or in a rules line
ColoursOf(cost, text) ==
  { k[1] : k \in { t \in ColourLetters :
                     \/ TokenIn(t[2], cost) \/ TokenIn(t[3], cost)
                     \/ \E n \in DOMAIN text :
                          TokenIn(t[2], text[n]) \/ TokenIn(t[3], text[n]) } }

Reverse(s) == [n \in DOMAIN s |-> s[Len(s) + 1 - n]]

\* C11: the colour identity is exactly the set of the colours whose bracketed
\* token occurs, in either letter case, in the cost or in a rules line; it is
\* the same for the rules lines in the opposite order, and for the same cost
\* and rules lines with no name, no type line and no flavor lines.
C11_ColourIdentity ==
  ipc = "done" =>
    /\ colors = ColoursOf(subject.cost, subject.text)
    /\ colors = getColorIdentity([subject EXCEPT !.text = Reverse(@)])
    /\ colors = getColorIdentity([NewCard EXCEPT !.cost = subject.cost,
                                                  !.text = subject.text])

\* a lower-case token in a rules line and an upper-case one in the name, the
\* type line and the flavor line: White and Blue only
C11_Witness ==
  /\ ipc = "done"
  /\ subject.cost = <<>>
  /\ Len(subject.text) = 2
  /\ TokenIn("u", subject.text[2])
  /\ TokenIn("G", subject.name)
  /\ TokenIn("U", subject.type)
  /\ subject.flavor # <<>>
  /\ colors = {"White", "Blue"}

(***************************************************************************)
(* C12: the classifier                                                     *)
(***************************************************************************)
\* w is a capital letter followed by one or more lower-case letters
CapitalizedWord(w) ==
  /\ Len(w) >= 2
  /\ w[1] \in UpperSet
  /\ \A n \in 2..Len(w) : w[n] \in LowerSet

\* d is an integer: one or more digits
DigitString(d) == Len(d) >= 1 /\ \A n \in 1..Len(d) : d[n] \in DigitSet

HasBrace(l) == \E n \in 1..Len(l) : l[n] \in {"{", "}"}

\* l starts with a capitalized word followed by a space and an em-dash
AbilityWordShape(l) ==
  \E n \in 1..Len(l) :
    /\ CapitalizedWord(SubSeq(l, 1, n))
    /\ Len(l) >= n + 2
    /\ SubSeq(l, n + 1, n + 2) = <<" ", "EMDASH">>

\* l is exactly a capitalized word, one whitespace and an integer
KeywordNShape(l) ==
  \E n \in 1..Len(l) :
    /\ CapitalizedWord(SubSeq(l, 1, n))
    /\ Len(l) >= n + 2
    /\ IsSpace(l[n + 1])
    /\ DigitString(SubSeq(l, n + 2, Len(l)))

\* the two characters are the same letter in either case, or the same character
SameIgnoringCase(a, b) == a = b \/ ToLowerChar(a) = b \/ a = ToLowerChar(b)

\* a vocabulary term occurs in l at some position, letter case aside
HasTerm(l) ==
  \E t \in DOMAIN mechanics :
    \E n \in 0..(Len(l) - Len(mechanics[t])) :
      \A j \in 1..Len(mechanics[t]) : SameIgnoringCase(l[n + j], mechanics[t][j])

\* C12: isRuleLine returns true exactly when the line holds a brace, or starts
\* with a capitalized word, a space and an em-dash, or is a capitalized word,
\* one whitespace and an integer, or holds a vocabulary term in any letter
\* case; the empty line gives false, "Flying" and "{T}: Draw a card." give
\* true, "A gentle breeze stirs the dust." gives false.
C12_Classifier ==
  rpc = "done" =>
    /\ isRule = (\/ HasBrace(ruleLine)
                 \/ AbilityWordShape(ruleLine)
                 \/ KeywordNShape(ruleLine)
                 \/ HasTerm(ruleLine))
    /\ ruleLine = <<>> => ~isRule
    /\ ruleLine \in {LineFlying, LineDrawACard} => isRule
    /\ ruleLine = LineBreeze => ~isRule

\* a line that is a rules line by an upper-case vocabulary term alone
C12_Witness ==
  /\ rpc = "done"
  /\ isRule
  /\ ~HasBrace(ruleLine)
  /\ ~AbilityWordShape(ruleLine)
  /\ ~KeywordNShape(ruleLine)
  /\ includes(ruleLine, <<"D", "R", "A", "W">>)

(***************************************************************************)
(* C13: rulesLines and flavorLines                                         *)
(***************************************************************************)
\* the number of positions of s that hold the text t
Count(s, t) == Cardinality({n \in DOMAIN s : s[n] = t})

Texts(s) == {s[n] : n \in DOMAIN s}

\* C13 as stated: for every finalized card no line text occurs both in
\* rulesLines and in flavorLines, also when the body holds the same text on
\* two different lines.
C13_NoTextInCommon ==
  Returned => Texts(card.text) \cap Texts(card.flavor) = {}

\* C13, amended: every text occurs in rulesLines and flavorLines together
\* exactly as many times as in the body after the type line; so a text is in
\* both lists only when the body holds it on two different lines, and the
\* lists have no line in common when the body lines are pairwise different.
C13_NoPositionInCommon ==
  Returned =>
    LET rest == Tail(bodyLines)
    IN /\ \A t \in Texts(rest) \cup Texts(card.text) \cup Texts(card.flavor) :
            Count(card.text, t) + Count(card.flavor, t) = Count(rest, t)
       /\ (\A t \in Texts(rest) : Count(rest, t) = 1)
            => Texts(card.text) \cap Texts(card.flavor) = {}

\* the same text above and below a rules line: once in each list
C13_Witness ==
  /\ Returned
  /\ Count(Tail(bodyLines), LineDust) = 2
  /\ Count(card.text, LineDust) = 1
  /\ Count(card.flavor, LineDust) = 1

(***************************************************************************)
(* C14: quoted body lines, checked on whole documents                      *)
(***************************************************************************)
\* the line begins with a typographic left or a straight double quote
IsQuoted(l) == Len(l) >= 1 /\ l[1] \in {"LDQUO", "\""}

\* the lines the parser appended to the body of the k-th card
BodyOf(k) == finalized[k][2]

\* C14 as stated: every line appended to a card's body that begins with a
\* quotation character is in that card's flavorLines, the first body line
\* included.
C14_QuotedBodyLineIsFlavor ==
  \A k \in 1..Len(cards) :
    \A n \in 1..Len(BodyOf(k)) :
      IsQuoted(BodyOf(k)[n]) => BodyOf(k)[n] \in Texts(cards[k].flavor)

\* C14, amended: every line appended to a card's body after the first one
\* that begins with a quotation character is in that card's flavorLines and
\* not in its rulesLines, whatever it contains; the first body line is the
\* type line also when it begins with a quotation character, and is then in
\* flavorLines only if the body repeats it.
C14_QuotedAfterTypeLineIsFlavor ==
  \A k \in 1..Len(cards) :
    LET body == BodyOf(k)
    IN /\ \A n \in 2..Len(body) :
            IsQuoted(body[n]) =>
              /\ body[n] \in Texts(cards[k].flavor)
              /\ body[n] \notin Texts(cards[k].text)
       /\ (Len(body) >= 1 /\ IsQuoted(body[1])) =>
            /\ cards[k].type = body[1]
            /\ Count(cards[k].flavor, body[1]) = Count(Tail(body), body[1])

\* a typographic quote with a brace and a vocabulary term, above a rules line
C14_Witness ==
  /\ pc = "done"
  /\ Len(cards) = 1
  /\ BodyOf(1) = << LineType, LineTypoQuote, LineFlying >>
  /\ cards[1].flavor = << LineTypoQuote >>
  /\ cards[1].text = << LineFlying >>

(***************************************************************************)
(* C15: the flavor and mechanics buckets                                   *)
(***************************************************************************)
\* the line holds the text of one of the three section headers
HoldsHeaderText(l) ==
  \E h \in {HeaderFlavor, HeaderMechanics, HeaderCards} : includes(l, h)

\* the number of the three collections that the step appends a line to
Grown ==
  Cardinality({n \in 1..3 :
                 \/ n = 1 /\ Len(setInfo'.flavor) > Len(setInfo.flavor)
                 \/ n = 2 /\ Len(setInfo'.mechanics) > Len(setInfo.mechanics)
                 \/ n = 3 /\ Len(currentBuffer') > Len(currentBuffer)})

C15_Step ==
  LET cleanLine == CleanLine(line')
  IN /\ Grown <= 1
     /\ IF ~ReadsLine \/ cleanLine = <<>>
        THEN setInfo' = setInfo
        ELSE IF HoldsHeaderText(cleanLine)
        THEN /\ setInfo' = setInfo
             /\ currentBuffer' = currentBuffer
             /\ cards' = cards
        ELSE /\ setInfo'.flavor =
                  (IF parsingSection = "FLAVOR"
                   THEN Append(setInfo.flavor, cleanLine) ELSE setInfo.flavor)
             /\ setInfo'.mechanics =
                  (IF parsingSection = "MECHANICS"
                   THEN Append(setInfo.mechanics, cleanLine) ELSE setInfo.mechanics)

\* C15: a step puts a line in the flavor (mechanics) bucket exactly when it
\* reads a non-blank normalized line that is no section header while the mode
\* is FLAVOR (MECHANICS), and then appends that line unchanged at the end; a
\* section-header line changes no bucket, no body and no card; no step puts
\* a line in more than one of flavor bucket, mechanics bucket and card body.
C15_Buckets == [][C15_Step]_vars

\* one line in each bucket, after both headers
C15_Witness ==
  /\ setInfo.flavor = << LineDust >>
  /\ setInfo.mechanics = << LineFlying >>
  /\ parsingSection = "MECHANICS"

(***************************************************************************)
(* C16: lines of the default section                                       *)
(***************************************************************************)
C16_Step ==
  LET cleanLine == CleanLine(line')
  IN (/\ ReadsLine
      /\ parsingSection = "INTRO"
      /\ cleanLine # <<>>
      /\ ~HoldsHeaderText(cleanLine))
     => \E b \in DOMAIN setInfo : setInfo'[b] = Append(setInfo[b], cleanLine)

\* C16: a non-blank line read while the mode is still the default section is
\* appended unchanged to a bucket of the sections that parse returns; it is
\* not dropped.
C16_DefaultLinesKept == [][C16_Step]_vars

(***************************************************************************)
(* C17: the name of an emitted card                                        *)
(***************************************************************************)
\* C17: every emitted card has a name that is not empty after trimming: the
\* name of a structured header with or without cost, the bracket expression
\* of a header that is a tag and a bracket expression only, and the whole
\* normalized line of a degraded header.
C17_NameNotEmpty ==
  \A k \in 1..Len(cards) :
    /\ trim(cards[k].name) # <<>>
    /\ finalized[k][1][1] = Null => cards[k].name = CleanLine(document[2])

\* a header that is a tag and a bracket expression only: the expression is
\* the name, the cost is empty
C17_Witness ==
  /\ pc = "done"
  /\ Len(cards) = 1
  /\ document[2] = <<"[", "M", "0", "1", "]", " ", "{", "1", "}">>
  /\ cards[1].name = <<"{", "1", "}">>
  /\ cards[1].cost = <<>>

(***************************************************************************)
(* C18: what was emitted stays as it is                                    *)
(***************************************************************************)
\* t is s, or s with one element appended at the end
SameOrOneMore(s, t) ==
  /\ Len(t) \in {Len(s), Len(s) + 1}
  /\ \A n \in 1..Len(s) : t[n] = s[n]

\* C18: a step changes no field of a card already in the output sequence,
\* and the output sequence and the two buckets change only by one element
\* appended at the end: nothing is removed, replaced or reordered.
C18_Step ==
  /\ SameOrOneMore(cards, cards')
  /\ SameOrOneMore(setInfo.flavor, setInfo'.flavor)
  /\ SameOrOneMore(setInfo.mechanics, setInfo'.mechanics)

C18_EmittedStays == [][C18_Step]_vars

\* a card emitted and a line in a bucket, with the scan still going on
C18_Witness ==
  /\ pc = "scan"
  /\ Len(cards) = 1
  /\ cards[1].name = <<"T", "e", "s", "t", " ", "C", "a", "r", "d">>
  /\ setInfo.flavor = << LineDust >>
  /\ currentIdLine # Null

(***************************************************************************)
(* C19: parse is total                                                     *)
(***************************************************************************)
CardFields == {"id", "name", "cost", "type", "text", "flavor"}

\* the value returned: a sequence of cards and the two buckets
WellFormedResult ==
  /\ \A k \in 1..Len(cards) : DOMAIN cards[k] = CardFields
  /\ DOMAIN setInfo = {"flavor", "mechanics"}
  /\ Len(finalized) = Len(cards)

C19_EachLineOnce ==
  /\ lineNo <= Len(document)
  /\ pc = "scan" /\ lineNo >= 1 => line = document[lineNo]
  /\ pc = "done" => lineNo = Len(document) /\ WellFormedResult

\* C19: for every document (no header, no card, degraded headers, empty
\* bodies, headers in any order) the scan reads each line once, in order,
\* the function returns, and it returns a sequence of cards and the buckets.
C19_Total == [] C19_EachLineOnce /\ <>(pc = "done")

\* the three headers against their order, then a degraded header: one card
C19_Witness ==
  /\ pc = "done"
  /\ document = << LineCardsHeader, LineMechanicsHeader, LineCardsHeader, LineMalformed >>
  /\ Len(cards) = 1

(***************************************************************************)
(* C20: a card without body                                                *)
(***************************************************************************)
\* the step closes the open card: a card-start line is taken in CARDS mode,
\* or the scan is over
ClosesCard ==
  \/ /\ ReadsLine
     /\ parsingSection = "CARDS"
     /\ CleanLine(line') # <<>>
     /\ ~HoldsHeaderText(CleanLine(line'))
     /\ IsCardStart(CleanLine(line'))
  \/ pc = "scan" /\ pc' = "done"

C20_Step ==
  (currentIdLine # Null /\ currentBuffer = <<>> /\ ClosesCard)
    => cards' = Append(cards, [id |-> currentIdLine[2],
                               name |-> currentIdLine[3],
                               cost |-> CostOrEmpty(currentIdLine[4]),
                               type |-> <<>>,
                               text |-> <<>>,
                               flavor |-> <<>>])

\* C20: a card-start line with no body line before the next card-start line
\* taken, or before the end of the document, gives a record with the empty
\* type line, no rulesLines and no flavorLines, appended to the sequence when
\* the card is closed, in its place.
C20_EmptyBody == [][C20_Step]_vars

\* two card-start lines and the end of the document: two records without
\* body, in the order of the lines
C20_Witness ==
  /\ pc = "done"
  /\ Len(cards) = 2
  /\ finalized[1][2] = <<>> /\ finalized[2][2] = <<>>
  /\ cards[1].id = <<"U", "7">> /\ cards[1].type = <<>> /\ cards[1].text = <<>>
  /\ cards[2].id = <<"M", "0", "1">> /\ cards[2].type = <<>> /\ cards[2].flavor = <<>>

(***************************************************************************)
(* C21: the labels of the two-colour combinations                          *)
(***************************************************************************)
\* the labels of rule 3 and rule 4, letter by letter
LabelSpelling ==
  { << LabelEsper,
       <<"T", "h", "e", " ", "S", "h", "a", "r", "d", " ", "o", "f", " ", "E", "s", "p", "e", "r", " ", "(", "A", "l", "a", "r", "a", ")">> >>,
    << LabelGrixis,
       <<"T", "h", "e", " ", "S", "h", "a", "r", "d", " ", "o", "f", " ", "G", "r", "i", "x", "i", "s", " ", "(", "A", "l", "a", "r", "a", ")">> >>,
    << LabelJund,
       <<"T", "h", "e", " ", "S", "h", "a", "r", "d", " ", "o", "f", " ", "J", "u", "n", "d", " ", "(", "A", "l", "a", "r", "a", ")">> >>,
    << LabelNaya,
       <<"T", "h", "e", " ", "S", "h", "a", "r", "d", " ", "o", "f", " ", "N", "a", "y", "a", " ", "(", "A", "l", "a", "r", "a", ")">> >>,
    << LabelBant,
       <<"T", "h", "e", " ", "S", "h", "a", "r", "d", " ", "o", "f", " ", "B", "a", "n", "t", " ", "(", "A", "l", "a", "r", "a", ")">> >>,
    << LabelEsperOrBant,
       <<"T", "h", "e", " ", "S", "h", "a", "r", "d", " ", "o", "f", " ", "E", "s", "p", "e", "r", " ", "(", "A", "l", "a", "r", "a", ")", " ", "o", "r", " ", "B", "a", "n", "t">> >>,
    << LabelEsperOrGrixis,
       <<"T", "h", "e", " ", "S", "h", "a", "r", "d", " ", "o", "f", " ", "E", "s", "p", "e", "r", " ", "(", "A", "l", "a", "r", "a", ")", " ", "o", "r", " ", "G", "r", "i", "x", "i", "s">> >>,
    << LabelJundOrGrixis,
       <<"T", "h", "e", " ", "S", "h", "a", "r", "d", " ", "o", "f", " ", "J", "u", "n", "d", " ", "(", "A", "l", "a", "r", "a", ")", " ", "o", "r", " ", "G", "r", "i", "x", "i", "s">> >>,
    << LabelJundOrNaya,
       <<"T", "h", "e", " ", "S", "h", "a", "r", "d", " ", "o", "f", " ", "J", "u", "n", "d", " ", "(", "A", "l", "a", "r", "a", ")", " ", "o", "r", " ", "N", "a", "y", "a">> >>,
    << LabelBantOrNaya,
       <<"T", "h", "e", " ", "S", "h", "a", "r", "d", " ", "o", "f", " ", "B", "a", "n", "t", " ", "(", "A", "l", "a", "r", "a", ")", " ", "o", "r", " ", "N", "a", "y", "a">> >> }

GroupNames == { <<"E", "s", "p", "e", "r">>, <<"G", "r", "i", "x", "i", "s">>, <<"J", "u", "n", "d">>, <<"N", "a", "y", "a">>, <<"B", "a", "n", "t">> }

\* the groups whose name is written in the label
GroupsNamed(label) ==
  { g \in GroupNames : \E p \in LabelSpelling : p[1] = label /\ includes(p[2], g) }

\* the groups of rule 3 whose colour triple holds every colour of c
GroupsAround(c) ==
  UNION { GroupsNamed(q[2]) : q \in { t \in ThreeColours : c \subseteq t[1] } }

\* C21: when rule 4 gives the label (no name keyword, no rules-text marker,
\* one of the five fixed pairs as colour identity), the label names exactly
\* the two groups of rule 3 whose colour triple contains both colours.
C21_PairNamesBothGroups ==
  (/\ ipc = "done"
   /\ RuleLabels(1, subject) = {}
   /\ RuleLabels(2, subject) = {}
   /\ \E q \in TwoColours : q[1] = colors)
  => /\ Cardinality(GroupsNamed(shard)) = 2
     /\ GroupsNamed(shard) = GroupsAround(colors)

\* Green and White: Bant (G,W,U) and Naya (R,G,W)
C21_Witness ==
  /\ ipc = "done"
  /\ colors = {"Green", "White"}
  /\ shard = LabelBantOrNaya
  /\ GroupsAround(colors) = { <<"B", "a", "n", "t">>, <<"N", "a", "y", "a">> }

(***************************************************************************)
(* C22, C30: the gallery and the image generator on the same document      *)
(***************************************************************************)
BothReturned == pc = "done" /\ genPc = "done"

\* C22: the file name the gallery derives for a card equals the file name
\* under which the image generator stores the image of the card it parsed
\* from the same card-start line, for structured and degraded headers.
C22_SameFileName ==
  BothReturned =>
    /\ Len(allCards) = Len(cards)
    /\ \A k \in 1..Len(cards) : getFileName(cards[k]) = GenGetFileName(allCards[k])

\* the flavor string the image generator builds from the lines fl
RECURSIVE FlavorString(_)
FlavorString(fl) ==
  IF fl = <<>> THEN <<>> ELSE <<" ">> \o Head(fl) \o FlavorString(Tail(fl))

\* C30: for every card, the rules text the image generator derives the
\* identities from is the rulesLines of the gallery's finalization of the
\* same body, and its flavor is made of that card's flavorLines.
C30_SameSplit ==
  BothReturned =>
    /\ Len(allCards) = Len(cards)
    /\ \A k \in 1..Len(cards) :
         /\ allCards[k].text = cards[k].text
         /\ allCards[k].flavor = FlavorString(cards[k].flavor)

(***************************************************************************)
(* C23, C24, C25: the runs of the image generator and of the gallery       *)
(***************************************************************************)
\* the step issues a request / writes an image file
IssuesRequest == Len(requests') = Len(requests) + 1

WritesImage == Len(saved') = Len(saved) + 1

C23_Step ==
  /\ IssuesRequest => requests'[Len(requests')][2] \notin files
  /\ WritesImage => saved'[Len(saved')][2] \notin files
  /\ files \subseteq files'

\* every request of the first run came back with an image that was saved
FirstRunSavedAll ==
  \A k \in 1..Len(requests) :
    requests[k][1] = 1 => \E j \in 1..Len(saved) : saved[j] = requests[k]

C23_SecondRun ==
  (run = 2 /\ FirstRunSavedAll) => \A k \in 1..Len(requests) : requests[k][1] = 1

\* C23: no step issues a request for, or writes, a file that exists in the
\* output directory at that step, whether it was there before the run or
\* was written earlier in the run; and a second run after a run that saved
\* the image of every request issues no request.
C23_Idempotent == [] C23_SecondRun /\ [][C23_Step]_vars

\* two cards with one file name: the first was requested and saved, the
\* second was skipped at its turn, and the second run has ended
C23_Witness ==
  /\ run = 2
  /\ mpc = "return"
  /\ document = << LineTestCard, LineTestCardAgain >>
  /\ Len(requests) = 1
  /\ saved = requests

\* the requests of the present run
RequestsOfRun == SelectSeq(requests, LAMBDA q : q[1] = run)

\* a request is in flight from the call of generateContent to its outcome
InFlight == IF mpc = "await" THEN 1 ELSE 0

C24_State ==
  /\ program = "generator" /\ mpc \in {"loop", "await", "sleep"} =>
        /\ cardNo < Len(cardsToProcess)
        /\ Len(RequestsOfRun) <= cardNo + (IF mpc = "loop" THEN 0 ELSE 1)
  /\ program = "generator" /\ mpc = "return" =>
        /\ cardNo = Len(cardsToProcess)
        /\ Len(RequestsOfRun) <= cardNo

C24_Step ==
  /\ IssuesRequest =>
        /\ InFlight = 0
        /\ InFlight' = 1
        /\ requests' = Append(requests, << run, GenGetFileName(cardsToProcess[cardNo + 1]) >>)
        /\ UNCHANGED << cardNo, cardsToProcess, files >>
  /\ InFlight = 1 =>
        /\ InFlight' = 0
        /\ mpc' = "sleep"
        /\ UNCHANGED << cardNo, cardsToProcess, requests >>
        /\ response' \in {"empty", "error"} => UNCHANGED << files, saved >>
  /\ cardNo' # cardNo /\ run' = run /\ mpc # "parse" => cardNo' = cardNo + 1
  /\ cardsToProcess' # cardsToProcess => mpc \in {"parse", "return"}

\* C24: a request is issued only when none is in flight and is for the card
\* at the loop's position, which only moves forward by one; a run never holds
\* more requests than cards it has reached; an outcome without image data or
\* an error leaves the files as they were and moves to the next card; the
\* run returns after the position has passed the last card to process.
C24_RetryFree == [] C24_State /\ [][C24_Step]_vars

\* the request of the first card failed and the second card's is in flight
C24_Witness ==
  /\ run = 1
  /\ cardNo = 1
  /\ mpc = "await"
  /\ response = "error"
  /\ Len(requests) = 2
  /\ saved = <<>>

\* nothing has been parsed by either program
NothingParsed ==
  /\ pc = "idle" /\ lineNo = 0 /\ cards = <<>> /\ currentIdLine = Null
  /\ genPc = "idle" /\ genLineNo = 0 /\ allCards = <<>> /\ currentCard = Null

C25_State ==
  ~inputExists =>
    /\ NothingParsed
    /\ htmlWritten = FALSE
    /\ requests = <<>>
    /\ saved = <<>>
    /\ cardsToProcess = <<>>
    /\ mpc \in {"start", "exit", "return"}

C25_Step == ~inputExists => UNCHANGED << dirExists, files, htmlWritten >>

\* C25: when INPUT_FILE does not exist, neither parser is started, no card
\* exists, no request is issued, and the output directory, the image files
\* and the gallery file stay as they were before the run.
C25_MissingInput == [] C25_State /\ [][C25_Step]_vars

\* the image generator has exited on a missing input and left no directory
C25_Witness ==
  /\ program = "generator"
  /\ ~inputExists
  /\ ~dirExists
  /\ mpc = "exit"

\* the gallery has returned on a missing input and written nothing
C25_WitnessGallery ==
  /\ program = "gallery"
  /\ ~inputExists
  /\ mpc = "return"
  /\ ~htmlWritten

(***************************************************************************)
(* C26: a quoted line and the flavor flag                                  *)
(***************************************************************************)
\* a turn of the scan on a quoted line
C26_FlagStep ==
  fpc = "loop" /\ i >= 1 /\ IsQuoted(remaining[i]) =>
    /\ processingFlavor' = processingFlavor
    /\ rulesStack' = rulesStack
    /\ flavorStack' = << remaining[i] >> \o flavorStack

\* position p of rest holds a plain line that is no rules line, and no plain
\* rules line lies below it
PlainAboveNoRule(rest, p) ==
  /\ ~IsQuoted(rest[p])
  /\ ~isRuleLine(rest[p])
  /\ \A q \in (p + 1)..Len(rest) : IsQuoted(rest[q]) \/ ~isRuleLine(rest[q])

C26_Result ==
  Returned =>
    LET rest == Tail(bodyLines)
    IN \A p \in 1..Len(rest) :
         PlainAboveNoRule(rest, p) =>
           /\ Len(card.text) <= p - 1
           /\ Len(card.flavor) >= Len(rest) - p + 1
           /\ card.flavor[Len(card.flavor) - (Len(rest) - p)] = rest[p]

\* C26: a turn of the bottom-up scan on a quoted line leaves the flag and the
\* rules as they were, even when the line holds "{", "}" or a vocabulary
\* term; so a plain line that is no rules line and has no plain rules line
\* below it is in flavorLines, with every line below it.
C26_QuotedNeverLatches == [] C26_Result /\ [][C26_FlagStep]_vars

\* a plain line above a quoted line that holds "{" and a vocabulary term
C26_Witness ==
  /\ Returned
  /\ bodyLines = << LineType, LineDust, LineTypoQuote >>
  /\ card.flavor = << LineDust, LineTypoQuote >>
  /\ card.text = <<>>

(***************************************************************************)
(* C27: card-start lines outside the cards mode                            *)
(***************************************************************************)
\* the line has the shape of a card start: a tag in brackets at its start
CardShaped(l) == idTagRegex(l) # Null \/ MatchBareTag(l)

C27_Step ==
  IF ReadsLine /\ parsingSection # "CARDS"
  THEN LET cleanLine == CleanLine(line')
       IN CardShaped(cleanLine) =>
            UNCHANGED << currentIdLine, currentBuffer, cards, starts, finalized >>
  ELSE TRUE

\* no line of the document holds the card-file header
NoCardFileHeader ==
  \A k \in 1..Len(document) : ~includes(CleanLine(document[k]), HeaderCards)

C27_NoCards ==
  (pc \in {"scan", "done"} /\ NoCardFileHeader) =>
     cards = <<>> /\ currentIdLine = Null

\* C27: a line of card-start shape read while the section mode is not CARDS
\* opens no card and closes none; a document without a line holding the
\* card-file header yields no card, whatever card-shaped lines it holds.
C27_OnlyInCardsMode == [] C27_NoCards /\ [][C27_Step]_vars

\* two card-shaped lines went to the flavor bucket and no card was made
C27_Witness ==
  /\ pc = "done"
  /\ document = << LineFlavorHeader, LineTestCard, LineMalformed >>
  /\ cards = <<>>
  /\ Len(setInfo.flavor) = 2

\* a card-shaped line read in flavor mode left the open card open
C27_WitnessOpen ==
  /\ pc = "scan"
  /\ document = << LineCardsHeader, LineTestCard, LineFlavorHeader, LineMalformed >>
  /\ lineNo = 4
  /\ cards = <<>>
  /\ currentIdLine # Null
  /\ currentIdLine[2] = <<"M", "0", "1">>

(***************************************************************************)
(* C28: lines of the cards mode read before a card is open                 *)
(***************************************************************************)
C28_Step ==
  IF ReadsLine /\ parsingSection = "CARDS" /\ currentIdLine = Null
  THEN LET cleanLine == CleanLine(line')
       IN (~CardShaped(cleanLine) /\ ~HoldsHeaderText(cleanLine)) =>
            UNCHANGED << cards, setInfo, currentIdLine, currentBuffer,
                         parsingSection, starts, finalized >>
  ELSE TRUE

FixedCombinations ==
  { p[1] : p \in ThreeColours } \cup { p[1] : p \in TwoColours }

\* the card has two or three colours that are no fixed combination, no name
\* keyword and no rules-text marker
OffCombination ==
  /\ ipc = "done"
  /\ Cardinality(colors) \in {2, 3}
  /\ colors \notin FixedCombinations
  /\ RuleLabels(1, subject) = {}
  /\ RuleLabels(2, subject) = {}

\* C29: a card of two or three colours that are none of the fixed pairs and
\* triples, with no name keyword and no rules-text marker, gets the label of
\* its type keyword, and the default label when its type line holds none;
\* it never gets the many-colour label.
C29_OffCombinationFallsThrough ==
  OffCombination =>
    /\ shard # LabelMaelstrom
    /\ shard \notin { p[2] : p \in TwoColours }
    /\ IF RuleLabels(5, subject) = {}
       THEN shard = LabelPlane
       ELSE shard = ShardByType(toLowerCase(subject.type))

\* blue, red and white with no keyword anywhere: the default label
C29_Witness ==
  /\ OffCombination
  /\ colors = {"Blue", "Red", "White"}
  /\ RuleLabels(5, subject) = {}
  /\ shard = LabelPlane

\* white and black on a dragon: the label of the type keyword
C29_WitnessPair ==
  /\ OffCombination
  /\ colors = {"White", "Black"}
  /\ shard = LabelJund

(***************************************************************************)
(* C31: the cards of the image generator and the cards of the gallery      *)
(***************************************************************************)
\* C31: for every document, the image generator's parser and the gallery's
\* parser return the same number of cards, in the same order, with the same
\* name and the same type line, so that the cards that get an image request
\* are the cards of the gallery.
C31_SameCards ==
  BothReturned =>
    /\ Len(allCards) = Len(cards)
    /\ \A k \in 1..Len(cards) :
         /\ allCards[k].name = cards[k].name
         /\ allCards[k].type = cards[k].type

(***************************************************************************)
(* C32: the file names of the cards of one document                        *)
(***************************************************************************)
\* C32: two cards of the document that differ in id or in name have
\* different image file names, and no card in the loop of main finds its
\* file already there.
C32_DistinctFileNames ==
  /\ genPc = "done" =>
        \A j, k \in 1..Len(allCards) :
          (allCards[j].id # allCards[k].id \/ allCards[j].name # allCards[k].name)
            => GenGetFileName(allCards[j]) # GenGetFileName(allCards[k])
  /\ program = "generator" /\ mpc = "loop" =>
        GenGetFileName(cardsToProcess[cardNo + 1]) \notin files

(***************************************************************************)
(* C33: the rarity class of a card of the gallery                          *)
(***************************************************************************)
\* the k-th card was opened by a line that misses the structured pattern
DegradedCard(k) == idTagRegex(starts[k]) = Null

\* the first character of the id the structured pattern took from the line
IdLetter(k) == idTagRegex(starts[k])[2][1]

\* C33: in the written gallery, the element of a card opened from a degraded
\* header has the rarity class common; an element has the class mythic,
\* rare, uncommon or land only when the id parsed from the card-start line
\* starts with M, R, U or L.
C33_DegradedIsCommon ==
  htmlWritten =>
    \A k \in 1..Len(rarityClasses) :
      IF DegradedCard(k)
      THEN rarityClasses[k] = "common"
      ELSE rarityClasses[k] =
             (CASE IdLetter(k) = "M" -> "mythic"
                [] IdLetter(k) = "R" -> "rare"
                [] IdLetter(k) = "U" -> "uncommon"
                [] IdLetter(k) = "L" -> "land"
                [] OTHER -> "common")
====
